---- MODULE Spec2Model ----
(***************************************************************************)
(* The durable job queue of api/services/scheduler.py, the worker loop of  *)
(* api/services/worker.py and the job execution of                         *)
(* api/services/executor.py, as a state machine over the shared store,     *)
(* the admission check of api/logic/predictor.py, the POST /requests route *)
(* of api/routes/workflow_requests.py with the request writes of           *)
(* api/services/request_handler.py, and resolve_user_identity of           *)
(* api/auth.py.                                                            *)
(*                                                                         *)
(* Time.  Every timestamp is kept relative to the current instant: the     *)
(* value of _utcnow() is the origin 0, a timestamp t > 0 lies t seconds in *)
(* the future and t < 0 lies -t seconds in the past.  The passing of time  *)
(* (Tick) shifts every stored timestamp towards the past, down to a floor  *)
(* below which the comparisons the code makes with now (run_at <= now,     *)
(* locked_at before now - LOCK_TTL_SEC) no longer change.                  *)
(***************************************************************************)
EXTENDS Integers, Sequences, FiniteSets, TLC

\* ---- knobs of scheduler.py (defaults of config.py) ----------------------
MAX_ATTEMPTS == 5
LOCK_TTL_SEC == 120
BACKOFF_BASE_SEC == 15
BACKOFF_CAP_SEC == 600
\* worker.py: lease_jobs(worker_id=WORKER_ID, limit=10)
WORKER_LEASE_LIMIT == 10

\* ---- bounds of the model -------------------------------------------------
\* how far in the future a request may be scheduled, in Ticks
MaxScheduleTicks == 1
\* enqueue_job calls in one behaviour
MaxEnqueues == 2
\* the counters of execution effects stop counting here
MaxEffects == 2
\* the largest attempt count the backoff delay is computed for
MaxBackoffAttempts == 8

Workers == {"w1", "w2"}
RequestIds == {"r1", "r2"}
\* the requests whose job the two workers of Spec contend for
ContendedRequests == {"r1"}
Priorities == {"high", "low"}

NULL == "null"
\* a nullable timestamp: <<>> is NULL, <<t>> is the timestamp t
NullTS == <<>>
TS(t) == <<t>>
IsNullTS(x) == x = <<>>
TsVal(x) == x[1]

Max(a, b) == IF a >= b THEN a ELSE b
Min(a, b) == IF a <= b THEN a ELSE b
\* seconds that pass in one Tick: half a lock TTL
TickSec == LOCK_TTL_SEC \div 2

RECURSIVE Pow2(_)
Pow2(n) == IF n <= 0 THEN 1 ELSE 2 * Pow2(n - 1)

\* a lock older than PastFloor is kept as PastFloor old: it is stale either way
PastFloor == LOCK_TTL_SEC + TickSec
\* a run_at more than DueFloor in the past is kept as DueFloor in the past: the
\* row is due either way, and sorts with the rows long overdue
DueFloor == TickSec

VARIABLES
    jobs,          \* table public.jobs: a set of rows
    vector_index,  \* table vector_index: number of result rows per request
    req_status,    \* table requests: status per request
    executed_at,   \* table requests: number of writes of executed_at per request
    pc,            \* per worker: the statement of start_worker_loop it is at
    batch,         \* per worker: the leased rows the for loop still has to handle
    attempts,      \* per worker: local variable attempts of fail_and_reschedule
    enqueues,      \* number of enqueue_job calls made
    analysis,      \* check_thresholds: its arguments (predictions, priority)
    decision,      \* check_thresholds: the ThresholdResult it returned
    route,         \* per request: the POST /requests call that creates it
    suggestions,   \* table requests: column suggestions per request
    settings,      \* config.settings: the knobs the route reads
    users,         \* table public.users: a set of rows
    identity_call, \* resolve_user_identity: its arguments
    resolution,    \* resolve_user_identity: what it returned or raised
    retry,         \* with_retry: the call in progress, or the last one made
    link_calls,    \* link_provided_user_id_if_missing: the calls made so far
    request_note,  \* table requests: column request_note per request, as its lines
    notify_email,  \* table requests: column notify_email per request
    note_calls     \* per caller: the update_request_note call it is making

\* the variables of the admission check, which the queue leaves alone
admissionVars == <<analysis, decision>>

\* the variables of the POST /requests route
routeVars == <<route, suggestions, settings>>

\* the variables of identity resolution
identityVars == <<users, identity_call, resolution>>

\* the variables of the request_handler and db_guard helpers
noteVars == <<request_note, notify_email, note_calls>>
helperVars == <<retry, link_calls, noteVars>>

\* what the worker loop and the clock leave alone
frontVars == <<admissionVars, helperVars, routeVars, identityVars>>

\* what enqueue_job leaves alone outside the queue; its caller says what
\* becomes of route
enqueueFrame == <<admissionVars, helperVars, suggestions, settings, identityVars>>

vars == <<jobs, vector_index, req_status, executed_at, pc, batch, attempts,
          enqueues, analysis, decision, route, suggestions, settings,
          users, identity_call, resolution, retry, link_calls,
          request_note, notify_email, note_calls>>

\* ---- scheduler.py helpers -------------------------------------------------
_utcnow == 0

\* _next_run_at: exponential backoff with cap
BackoffDelay_NoCap(n) == BACKOFF_BASE_SEC * Pow2(Max(0, n - 1))
BackoffDelay(n) == Min(BACKOFF_BASE_SEC * Pow2(Max(0, n - 1)), BACKOFF_CAP_SEC)
_next_run_at_Immediate(n) == _utcnow
_next_run_at(n) == _utcnow + BackoffDelay(n)

\* lease_jobs: limit = max(1, min(int(limit), 100))
ClampLimit_MinMaxSwapped(limit) == Min(1, Max(limit, 100))
ClampLimit(limit) == Max(1, Min(limit, 100))

\* lease_jobs: lock_expiry = _utcnow() - timedelta(seconds=LOCK_TTL_SEC)
LeaseLockExpiry_SignSlip == _utcnow + LOCK_TTL_SEC
LeaseLockExpiry_Minutes == _utcnow - 60 * LOCK_TTL_SEC
LeaseLockExpiry == _utcnow - LOCK_TTL_SEC

\* release_stale_locks: cutoff = _utcnow() - timedelta(seconds=LOCK_TTL_SEC)
SweepCutoff == _utcnow - LOCK_TTL_SEC

\* ---- the store ------------------------------------------------------------
Row(id) == CHOOSE j \in jobs : j.id = id
RowsOf(rid) == {j \in jobs : j.request_id = rid}

\* sb.table("jobs").update(fields).eq("id", jid): fields is a function from
\* column names to new values
UpdateRow(j, fields) ==
    [c \in DOMAIN j |-> IF c \in DOMAIN fields THEN fields[c] ELSE j[c]]
UpdateById(table, jid, fields) ==
    {IF j.id = jid THEN UpdateRow(j, fields) ELSE j : j \in table}

\* sb.table("jobs").upsert(data, on_conflict="request_id"): the row with the
\* same request_id takes the columns of data and keeps its id; without such
\* a row a new one is inserted under a fresh id
FreshId(table) == Cardinality(table) + 1
InsertRow(table, data) ==
    table \cup {[c \in DOMAIN data \cup {"id"} |->
                    IF c = "id" THEN FreshId(table) ELSE data[c]]}
Upsert_PlainInsert(table, data) == InsertRow(table, data)
Upsert(table, data) ==
    IF \E j \in table : j.request_id = data.request_id
    THEN {IF j.request_id = data.request_id THEN UpdateRow(j, data) ELSE j : j \in table}
    ELSE InsertRow(table, data)

\* ---- enqueue_job / schedule_for_later ---------------------------------------
\* run_at = run_at or _utcnow()
EnqueueData_IgnoresRunAt(rid, priority, run_at) ==
    [request_id |-> rid, status |-> "queued", priority |-> priority,
     run_at |-> _utcnow, attempts |-> 0, last_error |-> NULL,
     locked_by |-> NULL, locked_at |-> NullTS]
EnqueueData(rid, priority, run_at) ==
    [request_id |-> rid,
     status     |-> "queued",
     priority   |-> priority,
     run_at     |-> IF IsNullTS(run_at) THEN _utcnow ELSE TsVal(run_at),
     attempts   |-> 0,
     last_error |-> NULL,
     locked_by  |-> NULL,
     locked_at  |-> NullTS]

\* the run_at arguments tried: None (as soon as possible) and future times
RunAtInputs == {NullTS} \cup {TS(k * TickSec) : k \in 1..MaxScheduleTicks}

enqueue_job(rid, priority, run_at) ==
    /\ enqueues < MaxEnqueues
    /\ enqueues' = enqueues + 1
    /\ jobs' = Upsert(jobs, EnqueueData(rid, priority, run_at))
    /\ UNCHANGED enqueueFrame
    /\ UNCHANGED <<vector_index, req_status, executed_at, pc, batch, attempts>>

\* ---- jobs_lease (the store's RPC) and lease_jobs ----------------------------
PriorityRank(p) == CASE p = "high" -> 0 [] p = "medium" -> 1 [] OTHER -> 2

\* a row the lease may take: queued and due, or running under a lock older
\* than the expiry passed by lease_jobs
Eligible(j, lock_expired_before) ==
    \/ j.status = "queued" /\ j.run_at <= _utcnow
    \/ /\ j.status = "running"
       /\ ~IsNullTS(j.locked_at)
       /\ TsVal(j.locked_at) < lock_expired_before

\* a before b in ORDER BY priority, run_at
LeaseBefore(a, b) ==
    \/ PriorityRank(a.priority) < PriorityRank(b.priority)
    \/ PriorityRank(a.priority) = PriorityRank(b.priority) /\ a.run_at <= b.run_at

\* the sequences jobs_lease may pick: up to limit eligible rows, none left out
\* in favour of a row that sorts after it; rows that tie come in any order
LeaseOrders(table, limit, lock_expired_before) ==
    LET elig == {j \in table : Eligible(j, lock_expired_before)}
        n    == Min(limit, Cardinality(elig))
    IN  {s \in [1..n -> elig] :
            /\ \A i, k \in 1..n : i < k => s[i] # s[k] /\ LeaseBefore(s[i], s[k])
            /\ \A j \in elig : (\A i \in 1..n : s[i] # j) =>
                                  \A i \in 1..n : LeaseBefore(s[i], j)}

\* the rows of sel marked running for worker_id, locked at the current instant
MarkLeased(table, sel, worker_id) ==
    {IF \E i \in DOMAIN sel : sel[i] = j
     THEN UpdateRow(j, [status |-> "running", locked_by |-> worker_id,
                        locked_at |-> TS(_utcnow)])
     ELSE j : j \in table}

\* what start_worker_loop reads of a returned row: job["id"], job["request_id"]
Returned(sel) == [i \in DOMAIN sel |-> [id |-> sel[i].id, request_id |-> sel[i].request_id]]

BatchIds(w) == {batch[w][i].id : i \in DOMAIN batch[w]}

\* ---- start_worker_loop: one action per store round trip ---------------------
Goto(w, label) == pc' = [pc EXCEPT ![w] = label]

\* lease_jobs(worker_id, limit), and what the caller does with the rows returned:
\* if not jobs: ... (sweep), else the for loop
lease_jobs_limit(w, limit) ==
    /\ pc[w] = "lease"
    /\ \E sel \in LeaseOrders(jobs, ClampLimit(limit), LeaseLockExpiry) :
          /\ jobs' = MarkLeased(jobs, sel, w)
          /\ batch' = [batch EXCEPT ![w] = Returned(sel)]
          /\ Goto(w, IF sel = <<>> THEN "sweep" ELSE "execute")
    /\ UNCHANGED frontVars
    /\ UNCHANGED <<vector_index, req_status, executed_at, attempts, enqueues>>

\* jobs = await lease_jobs(worker_id=WORKER_ID, limit=10)
lease_jobs(w) == lease_jobs_limit(w, WORKER_LEASE_LIMIT)

\* lease_jobs or release_stale_locks raises: except Exception as outer
LoopLevelError(w) ==
    /\ pc[w] \in {"lease", "sweep"}
    /\ Goto(w, "error_sleep")
    /\ UNCHANGED frontVars
    /\ UNCHANGED <<jobs, vector_index, req_status, executed_at, batch, attempts, enqueues>>

\* release_stale_locks: update(...).lte("locked_at", cutoff).eq("status", "processing")
SweepMatches(j, cutoff) ==
    /\ ~IsNullTS(j.locked_at)
    /\ TsVal(j.locked_at) <= cutoff
    /\ j.status = "processing"

release_stale_locks(w) ==
    /\ pc[w] = "sweep"
    /\ jobs' = {IF SweepMatches(j, SweepCutoff)
                THEN UpdateRow(j, [status |-> "queued", locked_by |-> NULL,
                                   locked_at |-> NullTS, run_at |-> _utcnow])
                ELSE j : j \in jobs}
    /\ Goto(w, "idle_sleep")
    /\ UNCHANGED frontVars
    /\ UNCHANGED <<vector_index, req_status, executed_at, batch, attempts, enqueues>>

\* await asyncio.sleep(SLEEP_IDLE_SEC) / await asyncio.sleep(1.0), then the next iteration
Sleep_ThenReturn(w) ==
    /\ pc[w] \in {"idle_sleep", "error_sleep"}
    /\ Goto(w, "crashed")
    /\ UNCHANGED frontVars
    /\ UNCHANGED <<jobs, vector_index, req_status, executed_at, batch, attempts, enqueues>>
Sleep(w) ==
    /\ pc[w] \in {"idle_sleep", "error_sleep"}
    /\ Goto(w, "lease")
    /\ UNCHANGED frontVars
    /\ UNCHANGED <<jobs, vector_index, req_status, executed_at, batch, attempts, enqueues>>

\* execute_request_job: insert into vector_index, then mark the request completed
Count(n) == Min(n + 1, MaxEffects)

execute_request_job(w) ==
    /\ pc[w] = "execute"
    /\ LET rid == Head(batch[w]).request_id IN
          /\ vector_index' = [vector_index EXCEPT ![rid] = Count(@)]
          /\ req_status' = [req_status EXCEPT ![rid] = "completed"]
          /\ executed_at' = [executed_at EXCEPT ![rid] = Count(@)]
    /\ Goto(w, "complete")
    /\ UNCHANGED frontVars
    /\ UNCHANGED <<jobs, batch, attempts, enqueues>>

\* execute_request_job raises: before the insert, or at the update after it
execute_raises(w) ==
    /\ pc[w] = "execute"
    /\ LET rid == Head(batch[w]).request_id IN
          \E inserted \in BOOLEAN :
              vector_index' = IF inserted
                              THEN [vector_index EXCEPT ![rid] = Count(@)]
                              ELSE vector_index
    /\ Goto(w, "fail")
    /\ UNCHANGED frontVars
    /\ UNCHANGED <<jobs, req_status, executed_at, batch, attempts, enqueues>>

\* the for loop moves to the next leased job, or the while loop to the next lease
NextJob(w) ==
    /\ batch' = [batch EXCEPT ![w] = Tail(@)]
    /\ Goto(w, IF Tail(batch[w]) = <<>> THEN "lease" ELSE "execute")

CompleteFields_KeepsLock == [status |-> "completed"]
CompleteFields == [status |-> "completed", locked_by |-> NULL, locked_at |-> NullTS]

complete_job(w) ==
    /\ pc[w] = "complete"
    /\ jobs' = UpdateById(jobs, Head(batch[w]).id, CompleteFields)
    /\ NextJob(w)
    /\ UNCHANGED frontVars
    /\ UNCHANGED <<vector_index, req_status, executed_at, attempts, enqueues>>

\* complete_job raises: except Exception as e: await fail_and_reschedule(job_id, str(e))
complete_raises(w) ==
    /\ pc[w] = "complete"
    /\ Goto(w, "fail")
    /\ UNCHANGED frontVars
    /\ UNCHANGED <<jobs, vector_index, req_status, executed_at, batch, attempts, enqueues>>

\* attempts = int(cur.get("attempts", 0)) + 1
NewAttempts_NoIncrement(cur) == cur
NewAttempts(cur) == cur + 1

\* fail_and_reschedule, first round trip: cur = select("attempts")...; attempts = cur + 1
fail_read(w) ==
    /\ pc[w] = "fail"
    /\ attempts' = [attempts EXCEPT ![w] = NewAttempts(Row(Head(batch[w]).id).attempts)]
    /\ Goto(w, "fail_write")
    /\ UNCHANGED frontVars
    /\ UNCHANGED <<jobs, vector_index, req_status, executed_at, batch, enqueues>>

\* if attempts >= MAX_ATTEMPTS
IsPermanent_OffByOne(n) == n > MAX_ATTEMPTS
IsPermanent(n) == n >= MAX_ATTEMPTS

FailFields(n) ==
    IF IsPermanent(n)
    THEN [status |-> "failed", attempts |-> n, last_error |-> "error",
          locked_by |-> NULL, locked_at |-> NullTS]
    ELSE [status |-> "queued", attempts |-> n, last_error |-> "error",
          locked_by |-> NULL, locked_at |-> NullTS, run_at |-> _next_run_at(n)]

\* fail_and_reschedule, second round trip: the update of the row
fail_write(w) ==
    /\ pc[w] = "fail_write"
    /\ jobs' = UpdateById(jobs, Head(batch[w]).id, FailFields(attempts[w]))
    /\ attempts' = [attempts EXCEPT ![w] = 0]
    /\ NextJob(w)
    /\ UNCHANGED frontVars
    /\ UNCHANGED <<vector_index, req_status, executed_at, enqueues>>

\* fail_and_reschedule raises inside the except clause: the for loop is left
\* and the rest of the batch with it (except Exception as outer)
fail_raises(w) ==
    /\ pc[w] \in {"fail", "fail_write"}
    /\ batch' = [batch EXCEPT ![w] = <<>>]
    /\ attempts' = [attempts EXCEPT ![w] = 0]
    /\ Goto(w, "error_sleep")
    /\ UNCHANGED frontVars
    /\ UNCHANGED <<jobs, vector_index, req_status, executed_at, enqueues>>

\* the worker process dies at whatever statement it is, and takes no further
\* step; batch[w] stays as what it was handling when it died. One worker
\* loop stays alive.
Crash(w) ==
    /\ pc[w] # "crashed"
    /\ \E v \in Workers \ {w} : pc[v] # "crashed"
    /\ pc' = [pc EXCEPT ![w] = "crashed"]
    /\ UNCHANGED frontVars
    /\ UNCHANGED <<jobs, vector_index, req_status, executed_at, batch, attempts, enqueues>>

\* the worker process is started anew under the same WORKER_ID (HOSTNAME):
\* start_worker_loop begins with a lease, and what the old process held is lost
Restart(w) ==
    /\ pc[w] # "lease"
    /\ pc' = [pc EXCEPT ![w] = "lease"]
    /\ batch' = [batch EXCEPT ![w] = <<>>]
    /\ attempts' = [attempts EXCEPT ![w] = 0]
    /\ UNCHANGED frontVars
    /\ UNCHANGED <<jobs, vector_index, req_status, executed_at, enqueues>>

\* ---- time ---------------------------------------------------------------------
ShiftRunAt(t) == Max(t - TickSec, 0 - DueFloor)
ShiftLockedAt(t) == Max(t - TickSec, 0 - PastFloor)
ShiftRow(j) ==
    [j EXCEPT !.run_at = ShiftRunAt(@),
              !.locked_at = IF IsNullTS(@) THEN @ ELSE TS(ShiftLockedAt(TsVal(@)))]

Tick ==
    /\ jobs' = {ShiftRow(j) : j \in jobs}
    /\ UNCHANGED frontVars
    /\ UNCHANGED <<vector_index, req_status, executed_at, pc, batch, attempts, enqueues>>

\* ---- logic/predictor.py: the admission check ------------------------------------
\* complexity scores are kept in hundredths: the limit 0.3 is 30
THRESHOLDS_HighAboveCutoff ==
    [low    |-> [tokens |-> 300,  latency |-> 300,  complexity |-> 30],
     medium |-> [tokens |-> 500,  latency |-> 800,  complexity |-> 60],
     high   |-> [tokens |-> 1000, latency |-> 2500, complexity |-> 100]]
THRESHOLDS ==
    [low    |-> [tokens |-> 300,  latency |-> 300,  complexity |-> 30],
     medium |-> [tokens |-> 500,  latency |-> 800,  complexity |-> 60],
     high   |-> [tokens |-> 1000, latency |-> 1500, complexity |-> 100]]

\* THRESHOLDS.get(priority, THRESHOLDS["low"])
Limits(priority) ==
    IF priority \in DOMAIN THRESHOLDS THEN THRESHOLDS[priority] ELSE THRESHOLDS["low"]

\* _exceeded: the dimensions over their limit, in the order tokens, latency, complexity
_exceeded_FirstOnly(predictions, limits) ==
    IF predictions.total_tokens > limits.tokens THEN <<"tokens">>
    ELSE IF predictions.latency_ms > limits.latency THEN <<"latency">>
    ELSE IF predictions.complexity_score > limits.complexity THEN <<"complexity">>
    ELSE <<>>
_exceeded(predictions, limits) ==
    (IF predictions.total_tokens > limits.tokens THEN <<"tokens">> ELSE <<>>)
    \o (IF predictions.latency_ms > limits.latency THEN <<"latency">> ELSE <<>>)
    \o (IF predictions.complexity_score > limits.complexity THEN <<"complexity">> ELSE <<>>)

\* x in over
InSeq(x, seq) == \E i \in DOMAIN seq : seq[i] = x

check_thresholds(predictions, priority) ==
    LET limits == Limits(priority)
        over   == _exceeded(predictions, limits)
        reasons ==
            (IF InSeq("tokens", over) THEN <<"Token limit exceeded">> ELSE <<>>)
            \o (IF InSeq("latency", over) THEN <<"Latency threshold exceeded">> ELSE <<>>)
            \o (IF InSeq("complexity", over) THEN <<"Complexity score too high">> ELSE <<>>)
    IN  [passed |-> Len(over) = 0,
         failed_reasons |-> reasons,
         exceeded_dimensions |-> over]

\* the estimates and tiers tried: each limit, just above it, and well below all
TokenInputs == {100, 300, 301, 500, 501, 1000, 1001}
LatencyInputs == {100, 300, 301, 800, 801, 1500, 1501}
ComplexityInputs == {10, 30, 31, 60, 61, 100, 101}
\* the three tiers, and a tier name THRESHOLDS does not know
TierInputs == {"low", "medium", "high", "urgent"}

AnalysisInputs ==
    [predictions : [total_tokens : TokenInputs, latency_ms : LatencyInputs,
                    complexity_score : ComplexityInputs],
     priority : TierInputs]

\* no check_thresholds call has returned
NoDecision == <<>>

\* decision = predictor.check_thresholds(predictions, priority)
CheckThresholds ==
    /\ decision = NoDecision
    /\ decision' = <<check_thresholds(analysis.predictions, analysis.priority)>>
    /\ UNCHANGED <<jobs, vector_index, req_status, executed_at, pc, batch, attempts,
                   enqueues, analysis, helperVars, routeVars, identityVars>>

\* the next create_request call comes in with its own predictions and tier
NextAnalysis ==
    /\ decision # NoDecision
    /\ analysis' \in AnalysisInputs
    /\ decision' = NoDecision
    /\ UNCHANGED <<jobs, vector_index, req_status, executed_at, pc, batch, attempts,
                   enqueues, helperVars, routeVars, identityVars>>

\* ---- utils: the estimators analyze_request calls --------------------------------
\* a prompt is kept as its length in characters and the number of structure
\* marks estimate_complexity finds in it (a list marker, an analytics word)
\* estimate_tokens, without tiktoken: (len(prompt) + 3) // 4
estimate_tokens(prompt) == IF prompt.chars = 0 THEN 0 ELSE (prompt.chars + 3) \div 4

\* estimate_latency: base + min(chars // 10, 50) + min(chars // 4 // 5, 100)
estimate_latency(prompt) ==
    50 + Min(prompt.chars \div 10, 50) + Min((prompt.chars \div 4) \div 5, 100)

\* estimate_complexity, in hundredths: min(length / 1000 + 0.05 * marks, 1.0);
\* exact for the lengths that are multiples of ten
estimate_complexity(prompt) == Min(prompt.chars \div 10 + 5 * prompt.marks, 100)

\* predictor.analyze_request
analyze_request(prompt) ==
    [total_tokens     |-> estimate_tokens(prompt),
     latency_ms       |-> estimate_latency(prompt),
     complexity_score |-> estimate_complexity(prompt)]

\* suggester.generate_suggestions: the same four tips for every prompt
generate_suggestions(prompt) ==
    << "Try reducing the scope of your request",
       "Add filters like dates or categories",
       "Avoid overly broad or open-ended phrasing",
       "Run this during off-peak hours to reduce latency" >>

\* ---- table public.users ---------------------------------------------------------
\* ilike on the email column: a match whatever the case of the letters
Lower(e) == IF e = "B@X.IO" THEN "b@x.io" ELSE e

UserRows ==
    {[id |-> "u1", email |-> "a@x.io", provided_user_id |-> "ext-1",
      default_priority |-> "high"],
     [id |-> "u2", email |-> "b@x.io", provided_user_id |-> NULL,
      default_priority |-> "low"]}

\* (res.data or [None])[0]: the row found, or None
NoRow == [id |-> NULL, email |-> NULL, provided_user_id |-> NULL, default_priority |-> NULL]
FirstRow(rows) == IF rows = {} THEN NoRow ELSE CHOOSE u \in rows : TRUE

get_user_by_id(table, user_id) == FirstRow({u \in table : u.id = user_id})
get_user_by_external_id(table, ext_id) ==
    FirstRow({u \in table : u.provided_user_id = ext_id})
get_user_by_email(table, email) ==
    FirstRow({u \in table : Lower(u.email) = Lower(email)})

\* link_provided_user_id_if_missing: update ... where id = user_id and
\* provided_user_id is null
link_provided_user_id_if_missing_Overwrite(table, user_id, provided_user_id) ==
    {IF u.id = user_id
     THEN [u EXCEPT !.provided_user_id = provided_user_id] ELSE u : u \in table}
link_provided_user_id_if_missing(table, user_id, provided_user_id) ==
    {IF u.id = user_id /\ u.provided_user_id = NULL
     THEN [u EXCEPT !.provided_user_id = provided_user_id] ELSE u : u \in table}

\* ---- routes/workflow_requests.py: POST /requests ----------------------------------
PROMPT_MAX_CHARS == 4000
PROMPT_MIN_CHARS == 1
BACKGROUND_MAX_LATENCY_MS == 2000

DefaultSettings ==
    [prompt_min_chars |-> PROMPT_MIN_CHARS, prompt_max_chars |-> PROMPT_MAX_CHARS,
     background_max_latency_ms |-> BACKGROUND_MAX_LATENCY_MS]

\* schemas.Priority
Priority == {"low", "medium", "high"}

\* prompts: empty, short, middling, long, at the length limit and over it
PromptLens == {0, 200, 400, 1000, PROMPT_MAX_CHARS, PROMPT_MAX_CHARS + 1}
PromptInputs == [chars : PromptLens, marks : {0}] \cup {[chars |-> 200, marks |-> 2]}

\* the cutoffs tried: the default, and one that equals the predicted latency of
\* the middling prompt
CutoffInputs == {BACKGROUND_MAX_LATENCY_MS, estimate_latency([chars |-> 400, marks |-> 0])}
SettingsInputs == {[DefaultSettings EXCEPT !.background_max_latency_ms = c] : c \in CutoffInputs}

\* what get_identity makes of the Authorization header: no bearer token, or the
\* claims sub and email of a verified token, either of which may be missing
IdentInputs ==
    [token : {FALSE}, user_id : {NULL}, email : {NULL}]
    \cup [token : {TRUE}, user_id : {NULL, "sub-2"}, email : {NULL, "B@X.IO", "z@x.io"}]

\* request.scheduled_for: absent, this instant, or a later time
ScheduleInputs == RunAtInputs \cup {TS(_utcnow)}

\* request.priority: absent, or one of the tiers
PriorityInputs == {NULL} \cup Priority

\* wants_notify is FALSE for a call without metadata
CallInputs ==
    [prompt : PromptInputs, ident : IdentInputs, priority : PriorityInputs,
     scheduled_for : ScheduleInputs, wants_notify : {FALSE}]

\* the response of a call: its HTTP code, and the fields of RequestResponse
NoResponse == [code |-> 0, status |-> "", suggestions |-> <<>>, eta |-> NullTS]
Response(code, status, tips, eta) ==
    [code |-> code, status |-> status, suggestions |-> tips, eta |-> eta]

\* get_identity, lines 0) and 1) of create_request: the code of the error the
\* call is rejected with, 0 if it is not
\* get_identity: 401 without a bearer token or with a token that names nobody
IdentityCode(ident) ==
    IF ~ident.token \/ (ident.user_id = NULL /\ ident.email = NULL) THEN 401 ELSE 0
\* the prompt guards: 422 if empty or too short, 413 if too long
PromptCode(prompt, cfg) ==
    IF prompt.chars = 0 \/ prompt.chars < cfg.prompt_min_chars THEN 422
    ELSE IF prompt.chars > cfg.prompt_max_chars THEN 413
    ELSE 0
\* require_known_user_by_email: 401 without an email, 403 if no user has it
KnownUserCode(table, email) ==
    IF email = NULL THEN 401
    ELSE IF get_user_by_email(table, email) = NoRow THEN 403
    ELSE 0
\* the checks in the order they are made
RejectCode(call, table, cfg) ==
    IF IdentityCode(call.ident) # 0 THEN IdentityCode(call.ident)
    ELSE IF PromptCode(call.prompt, cfg) # 0 THEN PromptCode(call.prompt, cfg)
    ELSE KnownUserCode(table, call.ident.email)

\* where the call goes after the checks: it returns the error, or goes on to
\* insert the request row
AfterChecks_AlwaysInsert(code) == "insert"
AfterChecks(code) == IF code = 0 THEN "insert" ELSE "returned"

\* a call of the route: its arguments, the statement it is at, what it has
\* worked out, its response, and the background task it has added
NoCall ==
    [pc |-> "idle",
     prompt |-> [chars |-> 0, marks |-> 0],
     ident |-> [token |-> FALSE, user_id |-> NULL, email |-> NULL],
     priority |-> NULL,
     scheduled_for |-> NullTS,
     wants_notify |-> FALSE,
     verified_email |-> NULL,
     passed |-> FALSE,
     response |-> NoResponse,
     task |-> "none"]

RouteGoto(r, label) == route' = [route EXCEPT ![r].pc = label]

\* the request comes in: get_identity, the prompt guards, and
\* require_known_user_by_email, which links the token's sub to the user found
\* if that user has no alias yet
route_checks(r, call) ==
    /\ route[r].pc = "idle"
    /\ LET code == RejectCode(call, users, settings)
           user == get_user_by_email(users, call.ident.email)
       IN /\ route' = [route EXCEPT ![r] =
                 [@ EXCEPT !.pc = AfterChecks(code),
                           !.prompt = call.prompt,
                           !.ident = call.ident,
                           !.priority = IF call.priority # NULL THEN call.priority
                                        ELSE user.default_priority,
                           !.scheduled_for = call.scheduled_for,
                           !.wants_notify = call.wants_notify,
                           !.response = IF code = 0 THEN NoResponse
                                        ELSE Response(code, "error", <<>>, NullTS)]]
          /\ users' = IF code = 0 /\ call.ident.user_id # NULL
                      THEN link_provided_user_id_if_missing(users, user.id,
                                                            call.ident.user_id)
                      ELSE users
    /\ UNCHANGED <<jobs, vector_index, req_status, executed_at, pc, batch, attempts,
                   enqueues, admissionVars, helperVars, suggestions, settings, identity_call,
                   resolution>>

\* request_handler.create_request: the insert, with status pending
create_request_insert(r) ==
    /\ route[r].pc = "insert"
    /\ req_status' = [req_status EXCEPT ![r] = "pending"]
    /\ RouteGoto(r, "analyzing")
    /\ UNCHANGED <<jobs, vector_index, executed_at, pc, batch, attempts, enqueues,
                   admissionVars, helperVars, suggestions, settings, identityVars>>

\* request_handler.create_request: the update to status analyzing
create_request_analyzing(r) ==
    /\ route[r].pc = "analyzing"
    /\ req_status' = [req_status EXCEPT ![r] = "analyzing"]
    /\ RouteGoto(r, IF route[r].wants_notify THEN "get_user_email" ELSE "decide")
    /\ UNCHANGED <<jobs, vector_index, executed_at, pc, batch, attempts, enqueues,
                   admissionVars, helperVars, suggestions, settings, identityVars>>

\* the update dict of update_after_analysis: the status, the suggestions when
\* given (<<>> is None, the key is then left out), and never executed_at
NoTips == <<>>
AfterAnalysisUpdate_StatusOnly(new_status, tips) ==
    [status |-> new_status, suggestions |-> NoTips, executed_at |-> FALSE]
AfterAnalysisUpdate_StampsExecutedAt(new_status, tips) ==
    [status |-> new_status, suggestions |-> tips, executed_at |-> TRUE]
AfterAnalysisUpdate(new_status, tips) ==
    [status |-> new_status, suggestions |-> tips, executed_at |-> FALSE]

\* update_after_analysis: one update of the request's row
update_after_analysis(r, new_status, tips) ==
    LET update == AfterAnalysisUpdate(new_status, tips) IN
    /\ req_status' = [req_status EXCEPT ![r] = update.status]
    /\ suggestions' = IF update.suggestions = NoTips THEN suggestions
                      ELSE [suggestions EXCEPT ![r] = update.suggestions]
    /\ executed_at' = IF update.executed_at THEN [executed_at EXCEPT ![r] = Count(@)]
                      ELSE executed_at

\* if decision.passed: the branch the route takes on the decision
Admitted_Always(result) == TRUE
Admitted(result) == result.passed

\* steps 3) to 5): the predictions, the decision, and the row's update; a
\* blocked request gets its suggestions and the call returns
route_decide(r) ==
    /\ route[r].pc = "decide"
    /\ LET predictions == analyze_request(route[r].prompt)
           result == check_thresholds(predictions, route[r].priority)
           tips == generate_suggestions(route[r].prompt)
       IN IF Admitted(result)
          THEN /\ update_after_analysis(r, "sent_to_execution", NoTips)
               /\ route' = [route EXCEPT ![r].pc = "dispatch",
                                         ![r].passed = result.passed]
          ELSE /\ update_after_analysis(r, "below_threshold_suggestions_sent", <<tips>>)
               /\ route' = [route EXCEPT
                     ![r].pc = "returned",
                     ![r].passed = result.passed,
                     ![r].response =
                         Response(200, "below_threshold_suggestions_sent",
                                  [i \in DOMAIN tips |->
                                       [title |-> tips[i], description |-> tips[i]]],
                                  NullTS)]
    /\ UNCHANGED <<jobs, vector_index, pc, batch, attempts, enqueues,
                   admissionVars, helperVars, settings, identityVars>>

\* if scheduled_for and scheduled_for > _utcnow()
FutureSchedule(scheduled_for) ==
    ~IsNullTS(scheduled_for) /\ TsVal(scheduled_for) > _utcnow

\* if latency_ms <= heavy_cutoff_ms: the request runs as a background task
Background_StrictlyBelow(latency_ms, cfg) == latency_ms < cfg.background_max_latency_ms
Background(latency_ms, cfg) == latency_ms <= cfg.background_max_latency_ms

\* the path an admitted request takes
DispatchPath(call, cfg) ==
    IF FutureSchedule(call.scheduled_for) THEN "scheduled"
    ELSE IF Background(estimate_latency(call.prompt), cfg) THEN "background"
    ELSE "queued"

\* eta in whole seconds from now
Eta(ms) == TS(_utcnow + ms \div 1000)

\* the admitted request is scheduled for later: schedule_for_later is
\* enqueue_job with run_at = scheduled_for
route_schedule(r) ==
    /\ route[r].pc = "dispatch"
    /\ DispatchPath(route[r], settings) = "scheduled"
    /\ enqueue_job(r, route[r].priority, route[r].scheduled_for)
    /\ route' = [route EXCEPT
          ![r].pc = "returned",
          ![r].response = Response(200, "sent_to_execution", <<>>,
                                   route[r].scheduled_for)]

\* the admitted request is light: a background task is added for it
route_background(r) ==
    /\ route[r].pc = "dispatch"
    /\ DispatchPath(route[r], settings) = "background"
    /\ route' = [route EXCEPT
          ![r].pc = "returned",
          ![r].task = "pending",
          ![r].response = Response(200, "sent_to_execution", <<>>,
                                   Eta(estimate_latency(route[r].prompt) + 300))]
    /\ UNCHANGED <<jobs, vector_index, req_status, executed_at, pc, batch, attempts,
                   enqueues, admissionVars, helperVars, suggestions, settings, identityVars>>

\* the admitted request is heavy: enqueue_job with run_at = None
route_enqueue(r) ==
    /\ route[r].pc = "dispatch"
    /\ DispatchPath(route[r], settings) = "queued"
    /\ enqueue_job(r, route[r].priority, NullTS)
    /\ route' = [route EXCEPT
          ![r].pc = "returned",
          ![r].response = Response(200, "sent_to_execution", <<>>,
                                   Eta(estimate_latency(route[r].prompt)))]

\* _dummy_llm_execution, run after the response: finalize_execution inserts
\* the result and marks the request completed
finalize_execution(r) ==
    /\ route[r].task = "pending"
    /\ vector_index' = [vector_index EXCEPT ![r] = Count(@)]
    /\ req_status' = [req_status EXCEPT ![r] = "completed"]
    /\ executed_at' = [executed_at EXCEPT ![r] = Count(@)]
    /\ route' = [route EXCEPT ![r].task = "done"]
    /\ UNCHANGED <<jobs, pc, batch, attempts, enqueues, admissionVars, helperVars, suggestions,
                   settings, identityVars>>

\* ---- auth.py: resolve_user_identity ------------------------------------------------
\* Python truth of an optional string: None and "" are false
Truthy(x) == x # NULL /\ x # ""

\* x_provided_user_id or metadata.get("provided_user_id")
ProvidedId_BodyFirst(header, metadata) == IF Truthy(metadata) THEN metadata ELSE header
ProvidedId(header, metadata) == IF Truthy(header) THEN header ELSE metadata

\* what a store call can raise: a transient timeout (httpx.ReadTimeout,
\* TimeoutError), a transient network fault (ConnectionError), another
\* exception (a postgrest APIError), another exception whose message mentions
\* a timeout
ExcKinds == {"timeout", "unavailable", "other", "other_timeout"}
RETRYABLE_EXC == {"timeout", "unavailable"}
\* "timeout" in the exception's type name or in its message
TimeoutLike(e) == e \in {"timeout", "other_timeout"}

\* the fault a store keeps raising during one lookup, if any
StoreFaults == {"none", "timeout", "unavailable", "other"}
\* with_retry's error for a store call that fails: 504 for a timeout, else 503
classify_and_raise_NotFound(fault) == 404
classify_and_raise(fault) == IF TimeoutLike(fault) THEN 504 ELSE 503

\* row = get_user_by_external_id(supabase, provided_id): the row found and the
\* table after the call
ExternalLookup_Upsert(table, ext_id) ==
    LET made == [id |-> "u-new", email |-> NULL, provided_user_id |-> ext_id,
                 default_priority |-> "medium"]
        after == IF get_user_by_external_id(table, ext_id) = NoRow
                 THEN table \cup {made} ELSE table
    IN [row |-> get_user_by_external_id(after, ext_id), table |-> after]
ExternalLookup(table, ext_id) ==
    [row |-> get_user_by_external_id(table, ext_id), table |-> table]

\* what a resolution ends with: the status code (200 when it returns), the
\* principal, the notes, and the users table after it
Resolved(code, user, notes, table) ==
    [code |-> code, user |-> user, notes |-> notes, table |-> table]

resolve_user_identity(table, call) ==
    LET provided_id == ProvidedId(call.x_provided_user_id, call.metadata_provided_user_id)
        found == ExternalLookup(table, provided_id)
        row == get_user_by_id(table, call.user_id)
    IN IF Truthy(provided_id)
       THEN IF call.fault # "none"
            THEN Resolved(classify_and_raise(call.fault), NoRow, <<>>, table)
            ELSE IF found.row = NoRow
            THEN Resolved(404, NoRow, <<>>, found.table)
            ELSE Resolved(200, found.row, <<"Logged in using external ID">>, found.table)
       ELSE IF Truthy(call.user_id)
       THEN IF call.fault # "none"
            THEN Resolved(classify_and_raise(call.fault), NoRow, <<>>, table)
            ELSE IF row = NoRow
            THEN Resolved(404, NoRow, <<>>, table)
            ELSE Resolved(200, row, <<"Logged in using internal ID">>, table)
       ELSE IF call.current_user # NoRow
       THEN Resolved(200, call.current_user,
                     <<"Logged in using API-key authentication">>, table)
       ELSE Resolved(401, NoRow, <<>>, table)

\* the aliases and ids tried: absent, empty, one a user has, one nobody has
AliasInputs == {NULL, "", "ext-1", "ext-9"}
UserIdInputs == {NULL, "u2", "u9"}
\* the caller get_current_user authenticated by API key, if any
CurrentUserInputs == {NoRow} \cup {u \in UserRows : u.id = "u2"}

IdentityCallInputs ==
    [x_provided_user_id : AliasInputs, metadata_provided_user_id : AliasInputs,
     user_id : UserIdInputs, current_user : CurrentUserInputs, fault : StoreFaults]

NoResolution == <<>>

\* one call of resolve_user_identity
ResolveIdentity ==
    /\ resolution = NoResolution
    /\ LET res == resolve_user_identity(users, identity_call) IN
          /\ resolution' = <<[code |-> res.code, user |-> res.user, notes |-> res.notes]>>
          /\ users' = res.table
    /\ UNCHANGED <<jobs, vector_index, req_status, executed_at, pc, batch, attempts,
                   enqueues, admissionVars, helperVars, routeVars, identity_call>>

\* the next call comes in with its own arguments
NextIdentityCall ==
    /\ resolution # NoResolution
    /\ identity_call' \in IdentityCallInputs
    /\ resolution' = NoResolution
    /\ UNCHANGED <<jobs, vector_index, req_status, executed_at, pc, batch, attempts,
                   enqueues, admissionVars, helperVars, routeVars, users>>

\* ---- db_guard.py: with_retry ----------------------------------------------------
DB_RETRY_ATTEMPTS == 3
\* the values of attempts a call is made with: the configured default, below
\* it and above it
MaxRetryAttempts == 4
AttemptInputs == 0..MaxRetryAttempts
\* what one invocation of fn() does: it returns, or raises one of ExcKinds
CallOutcomes == {"ok"} \cup ExcKinds

\* except RETRYABLE_EXC (the first except clause) against except Exception
Transient_All(e) == TRUE
Transient(e) == e \in RETRYABLE_EXC

\* a with_retry call: its argument attempts, the loop index i, what each
\* invocation of fn() did so far, and how the call ended (status 0 while
\* it has not raised)
NoRetry(n) == [attempts |-> n, i |-> 0, seen |-> <<>>, state |-> "running", status |-> 0]
SettledRetry == [NoRetry(DB_RETRY_ATTEMPTS) EXCEPT !.seen = <<"ok">>, !.state = "returned"]

retryFrame == <<jobs, vector_index, req_status, executed_at, pc, batch, attempts,
                enqueues, admissionVars, routeVars, identityVars, link_calls, noteVars>>

\* one iteration of the for loop: fn() is invoked and returns or raises
with_retry_iteration(outcome) ==
    /\ retry.state = "running"
    /\ retry.i < retry.attempts
    /\ LET seen == Append(retry.seen, outcome) IN
       retry' = IF outcome = "ok"
                THEN [retry EXCEPT !.seen = seen, !.state = "returned"]
                ELSE IF Transient(outcome)
                THEN IF retry.i < retry.attempts - 1
                     THEN [retry EXCEPT !.seen = seen, !.i = retry.i + 1]
                     ELSE [retry EXCEPT !.seen = seen, !.state = "raised",
                                        !.status = classify_and_raise(outcome)]
                ELSE [retry EXCEPT !.seen = seen, !.state = "raised",
                                   !.status = classify_and_raise(outcome)]
    /\ UNCHANGED retryFrame

\* range(attempts) is empty: classify_and_raise(Exception("Unknown DB error"))
with_retry_no_iteration ==
    /\ retry.state = "running"
    /\ retry.i >= retry.attempts
    /\ retry' = [retry EXCEPT !.state = "raised", !.status = classify_and_raise("other")]
    /\ UNCHANGED retryFrame

\* the next with_retry call
NextRetryCall ==
    /\ retry.state # "running"
    /\ \E n \in AttemptInputs : retry' = NoRetry(n)
    /\ UNCHANGED retryFrame

\* ---- request_handler.py: the alias link, called on its own -----------------------
MaxLinkCalls == 2
\* the ids and aliases a call is made with: a user whose alias is set, one
\* whose alias is unset, nobody's id; the empty alias and two others
LinkUserIds == {"u1", "u2", "u9"}
LinkAliases == {"", "ext-1", "ext-9"}
LinkFaults == {"none", "unavailable"}

\* one call of link_provided_user_id_if_missing: the update is made unless
\* with_retry raises for it
link_call(user_id, provided_user_id, fault) ==
    /\ Len(link_calls) < MaxLinkCalls
    /\ link_calls' = Append(link_calls, [user_id |-> user_id,
                                         provided_user_id |-> provided_user_id,
                                         fault |-> fault])
    /\ users' = IF fault = "none"
                THEN link_provided_user_id_if_missing(users, user_id, provided_user_id)
                ELSE users
    /\ UNCHANGED <<jobs, vector_index, req_status, executed_at, pc, batch, attempts,
                   enqueues, admissionVars, routeVars, identity_call, resolution, retry,
                   noteVars>>

\* ---- request_handler.py: the request's note, and the route's notify handling ------
\* a note is kept as its lines: "a\nb" is <<"a", "b">>, "" and NULL are <<>>
\* new_note = existing + ("\n" if existing and to_append else "") + to_append
new_note(existing, notes_list) == existing \o notes_list

\* f"notify:{email}"
NotifyNote(email) == IF email = "a@x.io" THEN "notify:a@x.io" ELSE "notify:b@x.io"
NoVerifiedEmailNote == "notify_requested_but_no_verified_email"

\* get_user_email: the user's email if it is a string with an "@" in it
EmailsWithAt == {"a@x.io", "b@x.io"}
get_user_email(table, user_id) ==
    LET email == get_user_by_id(table, user_id).email
    IN IF email \in EmailsWithAt THEN email ELSE NULL

\* what with_retry ends a store call of the route with: its result, or an
\* HTTPException for a timeout or for another fault
RouteFaults == {"none", "timeout", "unavailable"}

\* the exception leaves the route: the call ends with its status code
RouteRaises(r, fault) ==
    route' = [route EXCEPT ![r].pc = "returned",
                           ![r].response = Response(classify_and_raise(fault), "error",
                                                    <<>>, NullTS)]

\* what the route's store calls leave alone besides the requests table
routeFrame == <<jobs, vector_index, executed_at, pc, batch, attempts, enqueues,
                admissionVars, retry, link_calls, note_calls, suggestions, settings,
                identityVars>>

\* create_request: the insert raises after its retries; no row is written
create_request_insert_raises(r, fault) ==
    /\ route[r].pc = "insert"
    /\ fault # "none"
    /\ RouteRaises(r, fault)
    /\ UNCHANGED <<req_status, request_note, notify_email, routeFrame>>

\* create_request: the update to analyzing raises after its retries; the
\* exception leaves create_request and the route
create_request_analyzing_raises(r, fault) ==
    /\ route[r].pc = "analyzing"
    /\ fault # "none"
    /\ RouteRaises(r, fault)
    /\ UNCHANGED <<req_status, request_note, notify_email, routeFrame>>

\* if wants_notify: verified_email = get_user_email(supabase, user_id)
route_get_user_email(r, fault) ==
    /\ route[r].pc = "get_user_email"
    /\ LET user == get_user_by_email(users, route[r].ident.email)
           email == get_user_email(users, user.id)
       IN IF fault # "none"
          THEN RouteRaises(r, fault)
          ELSE route' = [route EXCEPT
                   ![r].verified_email = email,
                   ![r].pc = IF email # NULL THEN "set_notify_email"
                             ELSE "update_request_note"]
    /\ UNCHANGED <<req_status, request_note, notify_email, routeFrame>>

\* set_notify_email: the update of notify_email; if it raises, the note is
\* appended instead, and if that raises the exception leaves the route
set_notify_email(r, fault, fallback_fault) ==
    /\ route[r].pc = "set_notify_email"
    /\ IF fault = "none"
       THEN /\ notify_email' = [notify_email EXCEPT ![r] = route[r].verified_email]
            /\ RouteGoto(r, "update_request_note")
            /\ UNCHANGED request_note
       ELSE IF fallback_fault = "none"
       THEN /\ request_note' = [request_note EXCEPT
                   ![r] = new_note(@, <<NotifyNote(route[r].verified_email)>>)]
            /\ RouteGoto(r, "update_request_note")
            /\ UNCHANGED notify_email
       ELSE /\ RouteRaises(r, fallback_fault)
            /\ UNCHANGED <<request_note, notify_email>>
    /\ UNCHANGED <<req_status, routeFrame>>

\* the route's update_request_note call: the notify note with a verified
\* email, the no-verified-email note without one; the row was just inserted
\* with its user_id, and nobody else knows its id yet
route_update_request_note(r, fault) ==
    /\ route[r].pc = "update_request_note"
    /\ LET note == IF route[r].verified_email # NULL
                   THEN NotifyNote(route[r].verified_email)
                   ELSE NoVerifiedEmailNote
       IN IF fault = "none"
          THEN /\ request_note' = [request_note EXCEPT ![r] = new_note(@, <<note>>)]
               /\ RouteGoto(r, "decide")
          ELSE /\ RouteRaises(r, fault)
               /\ UNCHANGED request_note
    /\ UNCHANGED <<req_status, notify_email, routeFrame>>

\* ---- request_handler.py: update_request_note, called by concurrent callers -------
MaxNoteCalls == 2
NoteCallers == {"c1", "c2"}
\* the request noted: one whose row exists
NoteRequests == {"r1"}
\* notes: one line each
NoteInputs == {<<"n1">>, <<"n2">>}
NoteFaults == {"none", "unavailable"}

\* a call: the statement it is at, its arguments, the row it read, the status
\* code it ended with (0 while it has not ended, 200 when it returned), and
\* the number of calls the caller has made
NoNoteCall == [pc |-> "idle", request_id |-> "r1", notes |-> <<>>, existing |-> <<>>,
               status |-> 0, made |-> 0]

noteFrame == <<jobs, vector_index, req_status, executed_at, pc, batch, attempts,
               enqueues, admissionVars, routeVars, identityVars, retry, link_calls,
               notify_email>>

\* the select of user_id and request_note; 404 if there is no row (rows are
\* always inserted with their user_id)
update_request_note_read(c, rid, notes_list, fault) ==
    /\ note_calls[c].pc \in {"idle", "done"}
    /\ note_calls[c].made < MaxNoteCalls
    /\ note_calls' = [note_calls EXCEPT ![c] =
          [pc |-> IF fault = "none" /\ req_status[rid] # "none" THEN "write" ELSE "done",
           request_id |-> rid,
           notes |-> notes_list,
           existing |-> IF fault = "none" /\ req_status[rid] # "none"
                        THEN request_note[rid] ELSE <<>>,
           status |-> IF fault # "none" THEN classify_and_raise(fault)
                      ELSE IF req_status[rid] = "none" THEN 404 ELSE 0,
           made |-> note_calls[c].made + 1]]
    /\ UNCHANGED <<request_note, noteFrame>>

\* the update of request_note with the note built from the row read
update_request_note_write(c, fault) ==
    /\ note_calls[c].pc = "write"
    /\ request_note' = IF fault = "none"
                       THEN [request_note EXCEPT ![note_calls[c].request_id] =
                                new_note(note_calls[c].existing, note_calls[c].notes)]
                       ELSE request_note
    /\ note_calls' = [note_calls EXCEPT
          ![c].pc = "done",
          ![c].status = IF fault = "none" THEN 200 ELSE classify_and_raise(fault)]
    /\ UNCHANGED noteFrame

\* ---- the specification ------------------------------------------------------
\* the queue, the requests table and the workers before any request is enqueued
InitQueue ==
    /\ jobs = {}
    /\ vector_index = [r \in RequestIds |-> 0]
    /\ req_status = [r \in RequestIds |-> "sent_to_execution"]
    /\ executed_at = [r \in RequestIds |-> 0]
    /\ pc = [w \in Workers |-> "lease"]
    /\ batch = [w \in Workers |-> <<>>]
    /\ attempts = [w \in Workers |-> 0]
    /\ enqueues = 0

\* the predictions of a short prompt at the default tier, passed
SettledAnalysis ==
    [predictions |-> [total_tokens |-> 100, latency_ms |-> 100, complexity_score |-> 10],
     priority |-> "medium"]

\* the call that created a request has returned, the request admitted
SettledCall == [NoCall EXCEPT !.pc = "returned", !.passed = TRUE]

\* the route at rest, under the default settings
InitRouteSettled ==
    /\ route = [r \in RequestIds |-> SettledCall]
    /\ suggestions = [r \in RequestIds |-> NoTips]
    /\ settings = DefaultSettings

\* a resolution that found nobody to resolve, settled
SettledIdentityCall ==
    [x_provided_user_id |-> NULL, metadata_provided_user_id |-> NULL,
     user_id |-> NULL, current_user |-> NoRow, fault |-> "none"]

InitIdentitySettled ==
    /\ users = UserRows
    /\ identity_call = SettledIdentityCall
    /\ resolution = <<[code |-> 401, user |-> NoRow, notes |-> <<>>]>>

\* no helper call in progress
InitNotes ==
    /\ request_note = [r \in RequestIds |-> <<>>]
    /\ notify_email = [r \in RequestIds |-> NULL]
    /\ note_calls = [c \in NoteCallers |-> NoNoteCall]

InitHelpersSettled ==
    /\ retry = SettledRetry
    /\ link_calls = <<>>
    /\ InitNotes

InitAdmissionSettled ==
    /\ analysis = SettledAnalysis
    /\ decision = <<check_thresholds(SettledAnalysis.predictions, SettledAnalysis.priority)>>

Init ==
    /\ InitQueue
    /\ InitAdmissionSettled
    /\ InitRouteSettled
    /\ InitIdentitySettled
    /\ InitHelpersSettled

\* the admission check on its own: any predictions, any tier
InitAdmission ==
    /\ InitQueue
    /\ analysis \in AnalysisInputs
    /\ decision = NoDecision
    /\ InitRouteSettled
    /\ InitIdentitySettled
    /\ InitHelpersSettled

NextAdmission == CheckThresholds \/ NextAnalysis
SpecAdmission == InitAdmission /\ [][NextAdmission]_vars

\* the route's call: create_request enqueues a request it has just admitted
Submit == \E rid \in ContendedRequests, p \in Priorities, t \in RunAtInputs :
              RowsOf(rid) = {} /\ enqueue_job(rid, p, t) /\ UNCHANGED route
\* enqueue_job called again for a request that has its row, whatever the row's status
Resubmit == \E rid \in ContendedRequests, p \in Priorities, t \in RunAtInputs :
                RowsOf(rid) # {} /\ enqueue_job(rid, p, t) /\ UNCHANGED route
Lease == \E w \in Workers : lease_jobs(w)
LeaseOrSweepRaises == \E w \in Workers : LoopLevelError(w)
Sweep == \E w \in Workers : release_stale_locks(w)
Sleeps == \E w \in Workers : Sleep(w)
Execute == \E w \in Workers : execute_request_job(w)
ExecuteRaises == \E w \in Workers : execute_raises(w)
Complete == \E w \in Workers : complete_job(w)
CompleteRaises == \E w \in Workers : complete_raises(w)
FailRead == \E w \in Workers : fail_read(w)
FailWrite == \E w \in Workers : fail_write(w)
FailRaises == \E w \in Workers : fail_raises(w)
Crashes == \E w \in Workers : Crash(w)

Next ==
    \/ Submit
    \/ Lease
    \/ LeaseOrSweepRaises
    \/ Sweep
    \/ Sleeps
    \/ Execute
    \/ ExecuteRaises
    \/ Complete
    \/ CompleteRaises
    \/ FailRead
    \/ FailWrite
    \/ FailRaises
    \/ Tick

\* two workers and the job of one request, enqueued once
Spec == Init /\ [][Next]_vars

\* the same with enqueue_job called again for the request
NextResubmit == Next \/ Resubmit
SpecResubmit == Init /\ [][NextResubmit]_vars

\* ---- the queue under callers that lease one or two rows at a time ----------------
\* the three tiers of schemas.Priority
QueuePriorities == {"high", "medium", "low"}
\* the limits passed to lease_jobs
LeaseLimits == {1, 2}

\* create_request enqueues either request, once each
SubmitAny == \E rid \in RequestIds, p \in QueuePriorities, t \in RunAtInputs :
                 RowsOf(rid) = {} /\ enqueue_job(rid, p, t) /\ UNCHANGED route
LeaseLimit == \E w \in Workers, limit \in LeaseLimits : lease_jobs_limit(w, limit)
Restarts == \E w \in Workers : Restart(w)

\* two requests; every execution succeeds and no store call raises; a worker
\* process may be restarted at any point
NextQueue ==
    \/ SubmitAny
    \/ LeaseLimit
    \/ Restarts
    \/ Sweep
    \/ Sleeps
    \/ Execute
    \/ Complete
    \/ Tick

SpecQueue == Init /\ [][NextQueue]_vars

\* ---- crash-prone workers under fair scheduling ---------------------------------
\* a step of worker w's loop in which no store call raises
LoopStep(w) ==
    \/ lease_jobs(w) \/ release_stale_locks(w) \/ Sleep(w)
    \/ execute_request_job(w) \/ execute_raises(w)
    \/ complete_job(w)
    \/ fail_read(w) \/ fail_write(w)

\* create_request enqueues the request once; the priority of a lone job decides nothing
SubmitOne == \E rid \in ContendedRequests, t \in RunAtInputs :
                 RowsOf(rid) = {} /\ enqueue_job(rid, "medium", t) /\ UNCHANGED route

\* jobs that fail, workers that crash; the scheduler's store calls succeed
NextLive ==
    \/ SubmitOne
    \/ Lease
    \/ Sweep
    \/ Sleeps
    \/ Execute
    \/ ExecuteRaises
    \/ Complete
    \/ FailRead
    \/ FailWrite
    \/ Crashes
    \/ Tick

\* time passes, and a worker loop that has not crashed keeps running
SpecLive ==
    /\ Init
    /\ [][NextLive]_vars
    /\ WF_vars(Tick)
    /\ \A w \in Workers : WF_vars(LoopStep(w))

\* the same with store calls that raise, none of them for ever
NextLiveFaults == NextLive \/ LeaseOrSweepRaises \/ CompleteRaises \/ FailRaises
SpecLiveFaults ==
    /\ Init
    /\ [][NextLiveFaults]_vars
    /\ WF_vars(Tick)
    /\ \A w \in Workers :
          /\ WF_vars(LoopStep(w) \/ LoopLevelError(w) \/ complete_raises(w) \/ fail_raises(w))
          /\ SF_vars(lease_jobs(w))
          /\ SF_vars(fail_read(w))
          /\ SF_vars(fail_write(w))

\* ---- the route, one worker behind it ----------------------------------------------
\* no request exists yet; the deployment runs under one of the settings
InitRoute ==
    /\ jobs = {}
    /\ vector_index = [r \in RequestIds |-> 0]
    /\ req_status = [r \in RequestIds |-> "none"]
    /\ executed_at = [r \in RequestIds |-> 0]
    /\ pc = [w \in Workers |-> "lease"]
    /\ batch = [w \in Workers |-> <<>>]
    /\ attempts = [w \in Workers |-> 0]
    /\ enqueues = 0
    /\ route = [r \in RequestIds |-> NoCall]
    /\ suggestions = [r \in RequestIds |-> NoTips]
    /\ settings \in SettingsInputs
    /\ InitAdmissionSettled
    /\ InitIdentitySettled
    /\ InitHelpersSettled

\* the requests that come in through the route, and the worker that serves them
RouteRequests == {"r1"}
RouteWorkers == {"w1"}

\* a call lasts far less than a tick of the clock
CallInFlight == \E r \in RequestIds : route[r].pc \notin {"idle", "returned"}

Calls == \E r \in RouteRequests, call \in CallInputs : route_checks(r, call)
Inserts == \E r \in RouteRequests : create_request_insert(r)
Analyzes == \E r \in RouteRequests : create_request_analyzing(r)
Decides == \E r \in RouteRequests : route_decide(r)
Schedules == \E r \in RouteRequests : route_schedule(r)
Backgrounds == \E r \in RouteRequests : route_background(r)
Enqueues == \E r \in RouteRequests : route_enqueue(r)
Finalizes == \E r \in RouteRequests : finalize_execution(r)
RouteLease == \E w \in RouteWorkers : lease_jobs(w)
RouteSweep == \E w \in RouteWorkers : release_stale_locks(w)
RouteSleeps == \E w \in RouteWorkers : Sleep(w)
RouteExecute == \E w \in RouteWorkers : execute_request_job(w)
RouteComplete == \E w \in RouteWorkers : complete_job(w)
RouteTick == ~CallInFlight /\ Tick

NextRoute ==
    \/ Calls \/ Inserts \/ Analyzes \/ Decides
    \/ Schedules \/ Backgrounds \/ Enqueues \/ Finalizes
    \/ RouteLease \/ RouteSweep \/ RouteSleeps \/ RouteExecute \/ RouteComplete
    \/ RouteTick
SpecRoute == InitRoute /\ [][NextRoute]_vars

\* ---- identity resolution on its own: any arguments -----------------------------------
InitIdentity ==
    /\ InitQueue
    /\ InitAdmissionSettled
    /\ InitRouteSettled
    /\ InitHelpersSettled
    /\ users = UserRows
    /\ identity_call \in IdentityCallInputs
    /\ resolution = NoResolution

NextIdentity == ResolveIdentity \/ NextIdentityCall
SpecIdentity == InitIdentity /\ [][NextIdentity]_vars

\* ---- one worker and a batch of two jobs, with store calls that raise ----------------
BatchWorkers == {"w1"}

\* create_request enqueues either request, once each, to run as soon as
\* possible; in one tier, the batch is in the order of the rows' creation
BatchSubmit == \E rid \in RequestIds :
                   RowsOf(rid) = {} /\ enqueue_job(rid, "medium", NullTS) /\ UNCHANGED route
BatchLease == \E w \in BatchWorkers : lease_jobs(w)
BatchLoopError == \E w \in BatchWorkers : LoopLevelError(w)
BatchSweep == \E w \in BatchWorkers : release_stale_locks(w)
BatchSleeps == \E w \in BatchWorkers : Sleep(w)
BatchExecute == \E w \in BatchWorkers : execute_request_job(w)
BatchExecuteRaises == \E w \in BatchWorkers : execute_raises(w)
BatchComplete == \E w \in BatchWorkers : complete_job(w)
BatchCompleteRaises == \E w \in BatchWorkers : complete_raises(w)
BatchFailRead == \E w \in BatchWorkers : fail_read(w)
BatchFailWrite == \E w \in BatchWorkers : fail_write(w)
BatchFailRaises == \E w \in BatchWorkers : fail_raises(w)

NextBatch ==
    \/ BatchSubmit
    \/ BatchLease \/ BatchLoopError \/ BatchSweep \/ BatchSleeps
    \/ BatchExecute \/ BatchExecuteRaises
    \/ BatchComplete \/ BatchCompleteRaises
    \/ BatchFailRead \/ BatchFailWrite \/ BatchFailRaises
    \/ Tick
SpecBatch == Init /\ [][NextBatch]_vars

\* ---- one worker and one job: the loop under store calls that raise -----------------
LoopSubmit == \E rid \in ContendedRequests :
                  RowsOf(rid) = {} /\ enqueue_job(rid, "medium", NullTS) /\ UNCHANGED route

NextLoop ==
    \/ LoopSubmit
    \/ BatchLease \/ BatchLoopError \/ BatchSweep \/ BatchSleeps
    \/ BatchExecute \/ BatchExecuteRaises
    \/ BatchComplete \/ BatchCompleteRaises
    \/ BatchFailRead \/ BatchFailWrite \/ BatchFailRaises
    \/ Tick

\* the worker's loop keeps running, its store calls raising or not
SpecLoop ==
    /\ Init
    /\ [][NextLoop]_vars
    /\ \A w \in BatchWorkers :
          WF_vars(LoopStep(w) \/ LoopLevelError(w) \/ complete_raises(w) \/ fail_raises(w))

\* ---- the route with notify requests and store calls that raise ---------------------
NotifyCallInputs ==
    [prompt : PromptInputs, ident : IdentInputs, priority : {NULL, "high"},
     scheduled_for : ScheduleInputs, wants_notify : BOOLEAN]
RaisedFaults == RouteFaults \ {"none"}

NotifyCalls == \E r \in RouteRequests, call \in NotifyCallInputs : route_checks(r, call)
InsertRaises == \E r \in RouteRequests, f \in RaisedFaults : create_request_insert_raises(r, f)
AnalyzeRaises == \E r \in RouteRequests, f \in RaisedFaults :
                     create_request_analyzing_raises(r, f)
GetUserEmails == \E r \in RouteRequests, f \in RouteFaults : route_get_user_email(r, f)
SetNotifyEmails == \E r \in RouteRequests, f \in RouteFaults, g \in RouteFaults :
                       set_notify_email(r, f, g)
RouteNotes == \E r \in RouteRequests, f \in RouteFaults : route_update_request_note(r, f)

NextNotify ==
    \/ NotifyCalls \/ Inserts \/ InsertRaises \/ Analyzes \/ AnalyzeRaises
    \/ GetUserEmails \/ SetNotifyEmails \/ RouteNotes \/ Decides
    \/ Schedules \/ Backgrounds \/ Enqueues \/ Finalizes
SpecNotify == InitRoute /\ [][NextNotify]_vars

\* ---- two callers of update_request_note on one request -----------------------------
NoteReads == \E c \in NoteCallers, rid \in NoteRequests, n \in NoteInputs, f \in NoteFaults :
                 update_request_note_read(c, rid, n, f)
NoteWrites == \E c \in NoteCallers, f \in NoteFaults : update_request_note_write(c, f)
NextNotes == NoteReads \/ NoteWrites
SpecNotes == Init /\ [][NextNotes]_vars

\* ---- the alias link on its own: any user, any alias, twice -------------------------
LinkCalls == \E u \in LinkUserIds, a \in LinkAliases, f \in LinkFaults : link_call(u, a, f)
NextLink == LinkCalls
SpecLink == Init /\ [][NextLink]_vars

\* ---- with_retry on its own: any attempts, any outcome of each invocation -----------
InitRetry ==
    /\ InitQueue
    /\ InitAdmissionSettled
    /\ InitRouteSettled
    /\ InitIdentitySettled
    /\ \E n \in AttemptInputs : retry = NoRetry(n)
    /\ link_calls = <<>>
    /\ InitNotes

RetryIteration == \E outcome \in CallOutcomes : with_retry_iteration(outcome)
RetryStep == RetryIteration \/ with_retry_no_iteration
NextRetry == RetryIteration \/ with_retry_no_iteration \/ NextRetryCall
\* the loop is sequential code: the call in progress goes on
SpecRetry == InitRetry /\ [][NextRetry]_vars /\ WF_vars(RetryStep)

\* ---- steps of the worker loop, as seen from outside ---------------------------
\* worker w's lease_jobs call returns a non-empty batch
LeaseStep(w) == pc[w] = "lease" /\ pc'[w] = "execute"
\* worker w's complete_job call updates the row
CompleteStep(w) == pc[w] = "complete" /\ pc'[w] \in {"lease", "execute"}
\* worker w's fail_and_reschedule call reads the attempt count
FailReadStep(w) == pc[w] = "fail" /\ pc'[w] = "fail_write"
\* worker w's fail_and_reschedule call updates the row
FailWriteStep(w) == pc[w] = "fail_write" /\ pc'[w] \in {"lease", "execute"}
\* worker w's release_stale_locks call runs its update
SweepStep(w) == pc[w] = "sweep" /\ pc'[w] = "idle_sleep"
\* an enqueue_job call
EnqueueStep == enqueues' = enqueues + 1

\* the lock on row j is fresh: lock age <= LOCK_TTL
FreshLocked(j) ==
    /\ j.status = "running"
    /\ ~IsNullTS(j.locked_at)
    /\ _utcnow - TsVal(j.locked_at) <= LOCK_TTL_SEC

\* worker w was returned row id by lease_jobs and has not yet called
\* complete_job or fail_and_reschedule for it
Holds(w, id) ==
    \E i \in DOMAIN batch[w] :
        /\ batch[w][i].id = id
        /\ i > 1 \/ pc[w] \in {"execute", "complete"}

\* ---- the claims -----------------------------------------------------------------

\* C1: a lease_jobs call never returns a row that is, at the call, running under
\* a fresh lock (lock age <= LOCK_TTL): what one worker was returned is not
\* returned to another while the lock is fresh.
C1_LeaseSkipsFreshLocks ==
    [][\A w \in Workers : LeaseStep(w) =>
          \A j \in jobs : j.id \in BatchIds(w)' => ~FreshLocked(j)]_vars

\* a lease call by w came back empty while the row is running under another
\* worker's lock, taken a Tick ago and still fresh
C1_Witness ==
    \E w \in Workers, j \in jobs :
        /\ pc[w] = "sweep"
        /\ FreshLocked(j)
        /\ j.locked_by # w
        /\ TsVal(j.locked_at) < _utcnow

\* C2: at most one worker is between having been returned a job by lease_jobs
\* and calling complete_job or fail_and_reschedule for it (in behaviours where
\* the request is enqueued once).
C2_AtMostOneActiveLease ==
    \A j \in jobs : Cardinality({w \in Workers : Holds(w, j.id)}) <= 1

\* C3: every job that is enqueued eventually has status completed or failed,
\* also when workers crash while they hold it, as long as one worker loop lives.
Terminal(rid) == \E j \in RowsOf(rid) : j.status \in {"completed", "failed"}

C4_ExactlyOnceInEffect ==
    \A r \in RequestIds : vector_index[r] <= 1 /\ executed_at[r] <= 1

\* C5: for every request id at most one job row exists.
C5_OneRowPerRequest ==
    \A rid \in RequestIds : Cardinality(RowsOf(rid)) <= 1

\* enqueue_job has been called twice for the request and its row is there
C5_Witness ==
    /\ enqueues >= 2
    /\ \E rid \in RequestIds : Cardinality(RowsOf(rid)) = 1

\* the row of jobs' that has the id of row j
After(j) == CHOOSE k \in jobs' : k.id = j.id
LockCleared(j) == j.locked_by = NULL /\ IsNullTS(j.locked_at)

\* C6: a job's attempt count is never above MAX_ATTEMPTS.
C6_AttemptsAtMostMax ==
    \A j \in jobs : j.attempts <= MAX_ATTEMPTS

\* C7: every fail_and_reschedule call leaves the stored attempt count exactly 1
\* above what it was before the call's update.
C7_FailIncrementsByOne ==
    [][\A w \in Workers : FailWriteStep(w) =>
          \A j \in jobs : j.id = Head(batch[w]).id =>
              After(j).attempts = j.attempts + 1]_vars

C9_FailedIsTerminal ==
    [][\A j \in jobs : j.status = "failed" => After(j).status = "failed"]_vars

\* C10: a job's lock holder and lock timestamp are both non-null exactly when
\* its status is running, and every row that enqueue_job, complete_job,
\* fail_and_reschedule or release_stale_locks writes is left with a cleared
\* lock and a status other than running.
LockInvariant ==
    \A j \in jobs : (j.locked_by # NULL /\ ~IsNullTS(j.locked_at)) <=> j.status = "running"

Ready(j) == j.status = "queued" /\ j.run_at <= _utcnow
\* row j is running under a lock older than LOCK_TTL
Abandoned(j) ==
    /\ j.status = "running"
    /\ ~IsNullTS(j.locked_at)
    /\ _utcnow - TsVal(j.locked_at) > LOCK_TTL_SEC
\* a lease call could take row j
Leasable(j) == Ready(j) \/ Abandoned(j)

\* C11: when the job of R, enqueued with run_at = now, is the one row a lease
\* could take, a lease_jobs call with limit 1 returns exactly that row, running
\* and locked by the caller at the current instant; and while that lock is
\* fresh, a lease_jobs call with limit 1 by any worker returns no rows.
C11_LeaseThenEmpty ==
    [][\A w \in Workers, j \in jobs :
          (lease_jobs_limit(w, 1) /\ \A k \in jobs \ {j} : ~Leasable(k)) =>
              /\ (Ready(j) /\ j.run_at = _utcnow) =>
                    /\ batch'[w] = <<[id |-> j.id, request_id |-> j.request_id]>>
                    /\ After(j).status = "running"
                    /\ After(j).locked_by = w
                    /\ After(j).locked_at = TS(_utcnow)
              /\ FreshLocked(j) =>
                    /\ batch'[w] = <<>>
                    /\ After(j) = j]_vars

\* the job is running under the fresh lock of a worker whose lease call was
\* its last step, and that same worker, started anew, has leased again and
\* was returned nothing
C11_Witness ==
    \E w \in Workers, j \in jobs :
        /\ FreshLocked(j)
        /\ j.locked_by = w
        /\ TsVal(j.locked_at) = _utcnow
        /\ pc[w] = "sweep"
        /\ batch[w] = <<>>

\* worker w's lease_jobs call returns, with rows or without
LeaseReturns(w) == pc[w] = "lease" /\ pc'[w] \in {"execute", "sweep"}

C13_SweepResetsAbandoned ==
    [][\A w \in Workers : SweepStep(w) =>
          \A j \in jobs :
              IF Abandoned(j)
              THEN /\ After(j).status = "queued"
                   /\ After(j).run_at = _utcnow
                   /\ LockCleared(After(j))
                   /\ After(j).attempts = j.attempts
              ELSE After(j) = j]_vars

\* the tiers, first served first
TierOrder == <<"high", "medium", "low">>
TierIndex(p) == CHOOSE i \in DOMAIN TierOrder : TierOrder[i] = p
\* row a is served strictly before row b: a higher tier, or the same tier and
\* an earlier run_at
ServedBefore(a, b) ==
    \/ TierIndex(a.priority) < TierIndex(b.priority)
    \/ a.priority = b.priority /\ a.run_at < b.run_at

\* C14: a lease_jobs call with limit N returns min(N, number of rows it could
\* take) rows, in the order high, medium, low and by run_at ascending within
\* a tier, and no row it leaves behind is one it could take that is of a
\* higher tier, or of the same tier with an earlier run_at, than a row it
\* returns.
C14_LeaseOrder ==
    [][\A w \in Workers, N \in LeaseLimits : lease_jobs_limit(w, N) =>
          LET got == batch'[w]
              taken == {got[i].id : i \in DOMAIN got}
          IN  /\ Len(got) = Min(N, Cardinality({j \in jobs : Leasable(j)}))
              /\ Cardinality(taken) = Len(got)
              /\ \A id \in taken : Leasable(Row(id))
              /\ \A i, k \in DOMAIN got :
                    i < k => ~ServedBefore(Row(got[k].id), Row(got[i].id))
              /\ \A j \in jobs : (Leasable(j) /\ j.id \notin taken) =>
                    \A id \in taken : ~ServedBefore(j, Row(id))]_vars

\* a lease has just returned two rows, the one of the higher tier first
\* although the other was due earlier
C14_Witness ==
    \E w \in Workers :
        /\ pc[w] = "execute"
        /\ Len(batch[w]) = 2
        /\ LET a == Row(batch[w][1].id)
               b == Row(batch[w][2].id)
           IN  /\ a.locked_at = TS(_utcnow) /\ a.locked_by = w
               /\ b.locked_at = TS(_utcnow) /\ b.locked_by = w
               /\ TierIndex(a.priority) < TierIndex(b.priority)
               /\ b.run_at < a.run_at

\* row j waits for a scheduled time that has not come: queued, run_at in the
\* future, never failed
Scheduled(j) == j.status = "queued" /\ j.run_at > _utcnow /\ j.attempts = 0

\* C15: enqueue_job with a future run_at leaves the request's row queued with
\* that run_at; no lease_jobs call returns a row that is queued with run_at
\* later than the call; and while a request's row waits for its scheduled
\* time the request is in sent_to_execution and nothing of it has been executed.
C15_NotBeforeRunAt ==
    /\ [][\A rid \in RequestIds, p \in Priorities, t \in RunAtInputs \ {NullTS} :
             (enqueue_job(rid, p, t) /\ TsVal(t) > _utcnow) =>
                 \E j \in jobs' : /\ j.request_id = rid
                                  /\ j.status = "queued"
                                  /\ j.run_at = TsVal(t)]_vars
    /\ [][\A w \in Workers : LeaseReturns(w) =>
             \A j \in jobs : (j.status = "queued" /\ j.run_at > _utcnow) =>
                 j.id \notin BatchIds(w)' /\ After(j) = j]_vars
    /\ [](\A j \in jobs : Scheduled(j) =>
             /\ req_status[j.request_id] = "sent_to_execution"
             /\ vector_index[j.request_id] = 0
             /\ executed_at[j.request_id] = 0)

\* a lease call came back empty while the request's row waits for its
\* scheduled time
C15_Witness ==
    \E w \in Workers, j \in jobs :
        /\ Scheduled(j)
        /\ pc[w] = "sweep"
        /\ req_status[j.request_id] = "sent_to_execution"

\* C16: for every attempt count n >= 1 the retry delay is
\* min(BACKOFF_BASE_SEC * 2^(n-1), BACKOFF_CAP_SEC), at most the cap and at
\* least the delay of n - 1; a fail_and_reschedule call that requeues a job
\* with attempt count n sets run_at to the current instant plus that delay.
C16_BackoffDelay ==
    /\ [](\A n \in 1..Max(MAX_ATTEMPTS, MaxBackoffAttempts) :
             /\ BackoffDelay(n) = Min(BACKOFF_BASE_SEC * 2^(n - 1), BACKOFF_CAP_SEC)
             /\ BackoffDelay(n) <= BACKOFF_CAP_SEC
             /\ n > 1 => BackoffDelay(n - 1) <= BackoffDelay(n))
    /\ [][\A w \in Workers : (FailWriteStep(w) /\ attempts[w] < MAX_ATTEMPTS) =>
             \A j \in jobs : j.id = Head(batch[w]).id =>
                 After(j).run_at =
                     _utcnow + Min(BACKOFF_BASE_SEC * 2^(attempts[w] - 1), BACKOFF_CAP_SEC)]_vars

\* a job has just been requeued after its fourth failure, eight base delays ahead
C16_Witness ==
    \E j \in jobs :
        /\ j.status = "queued"
        /\ j.attempts = MAX_ATTEMPTS - 1
        /\ j.run_at = _utcnow + 8 * BACKOFF_BASE_SEC

\* ---- claims about the request record ---------------------------------------------------
\* the terminal execution outcomes of a request
Finished(status) == status \in {"completed", "failed"}

\* C17: a request's executed_at is unwritten as long as its status is neither
\* completed nor failed, and the only step that writes it is the one that
\* takes the request to completed or failed: it is written once.
C17_ExecutedAtOnce ==
    /\ [](\A r \in RequestIds : ~Finished(req_status[r]) => executed_at[r] = 0)
    /\ [][\A r \in RequestIds : executed_at'[r] # executed_at[r] =>
             /\ executed_at[r] = 0
             /\ ~Finished(req_status[r])
             /\ Finished(req_status'[r])]_vars

\* the edges of the status graph
TransitionGraph ==
    {<<"pending", "analyzing">>,
     <<"analyzing", "sent_to_execution">>,
     <<"analyzing", "below_threshold_suggestions_sent">>,
     <<"sent_to_execution", "processing">>,
     <<"processing", "completed">>,
     <<"processing", "failed">>}

\* C18: every step that changes a request's status takes it along an edge of
\* the status graph.
C18_StatusFollowsGraph ==
    [][\A r \in RequestIds : req_status'[r] # req_status[r] =>
          <<req_status[r], req_status'[r]>> \in TransitionGraph]_vars

\* C19: every request that has a job row eventually has status completed or
\* failed, also when its job fails MAX_ATTEMPTS times.
C19_RequestEventuallyFinished ==
    \A rid \in ContendedRequests :
        [](RowsOf(rid) # {} => <>Finished(req_status[rid]))

\* ---- claims about the admission check -------------------------------------------
\* the dimensions of predictions that are over the limit of a tier THRESHOLDS knows
Over(predictions, tier) ==
    {d \in {"tokens", "latency", "complexity"} :
        \/ d = "tokens" /\ predictions.total_tokens > THRESHOLDS[tier].tokens
        \/ d = "latency" /\ predictions.latency_ms > THRESHOLDS[tier].latency
        \/ d = "complexity" /\ predictions.complexity_score > THRESHOLDS[tier].complexity}

\* the spec's example: tier low, tokens 500, latency 100, complexity 0.1
ExampleAnalysis ==
    [predictions |-> [total_tokens |-> 500, latency_ms |-> 100, complexity_score |-> 10],
     priority |-> "low"]

\* C20: check_thresholds passes exactly when tokens, latency and complexity are
\* each <= the tier's limit; the exceeded_dimensions it returns are exactly the
\* dimensions over their limit, each once; the example gives blocked with
\* exceeded = [tokens].
C20_ThresholdsIffWithin ==
    (decision # NoDecision /\ analysis.priority \in DOMAIN THRESHOLDS) =>
        LET d == decision[1]
            p == analysis.predictions
            l == THRESHOLDS[analysis.priority]
        IN  /\ d.passed <=> /\ p.total_tokens <= l.tokens
                            /\ p.latency_ms <= l.latency
                            /\ p.complexity_score <= l.complexity
            /\ {d.exceeded_dimensions[i] : i \in DOMAIN d.exceeded_dimensions}
                  = Over(p, analysis.priority)
            /\ Len(d.exceeded_dimensions) = Cardinality(Over(p, analysis.priority))
            /\ analysis = ExampleAnalysis =>
                  ~d.passed /\ d.exceeded_dimensions = <<"tokens">>

\* check_thresholds has blocked predictions that are over two limits of the tier
C20_Witness ==
    /\ decision # NoDecision
    /\ analysis.priority \in DOMAIN THRESHOLDS
    /\ ~decision[1].passed
    /\ Cardinality(Over(analysis.predictions, analysis.priority)) = 2

\* ---- claims about the route ---------------------------------------------------------
\* the admission decision for the predictions and the tier of the request's call
DecisionOf(r) == check_thresholds(analyze_request(route[r].prompt), route[r].priority)
\* the call has got past the checks and has taken its decision
Decided(r) ==
    \/ route[r].pc = "dispatch"
    \/ route[r].pc = "returned" /\ route[r].response.code = 200
\* something was set up to execute the request, or has executed it
HasJobRow(r) == RowsOf(r) # {}
HasExecution(r) == route[r].task # "none" \/ vector_index[r] > 0 \/ executed_at[r] > 0

\* C21: a request is in sent_to_execution (or beyond), or has a job row or an
\* execution, only if the decision for its predictions and tier passed; a
\* request whose decision was blocked is in below_threshold_suggestions_sent
\* once its call has decided, and has neither a job row nor an execution
C21_AdmissionGating ==
    \A r \in RequestIds :
        /\ (\/ req_status[r] \in {"sent_to_execution", "completed"}
            \/ HasJobRow(r)
            \/ HasExecution(r)) => DecisionOf(r).passed
        /\ (Decided(r) /\ ~DecisionOf(r).passed) =>
               /\ req_status[r] = "below_threshold_suggestions_sent"
               /\ ~HasJobRow(r)
               /\ ~HasExecution(r)

\* a blocked request's call has returned, and the worker has been round since
C21_Witness ==
    \E r \in RequestIds :
        /\ route[r].pc = "returned"
        /\ route[r].response.code = 200
        /\ ~DecisionOf(r).passed
        /\ req_status[r] = "below_threshold_suggestions_sent"
        /\ ~HasJobRow(r)
        /\ \E w \in RouteWorkers : pc[w] = "idle_sleep"

\* C22: in every reachable state a request with status
\* below_threshold_suggestions_sent has executed_at null
C22_BlockedNeverExecutedAt ==
    \A r \in RequestIds :
        req_status[r] = "below_threshold_suggestions_sent" => executed_at[r] = 0

\* a request blocked for its complexity alone sits in the below-threshold status
C22_Witness ==
    \E r \in RequestIds :
        /\ req_status[r] = "below_threshold_suggestions_sent"
        /\ DecisionOf(r).exceeded_dimensions = <<"complexity">>
        /\ executed_at[r] = 0

\* the tips of the response, as the strings they were made from
ResponseTips(r) ==
    [i \in DOMAIN route[r].response.suggestions |-> route[r].response.suggestions[i].title]

\* C23: a request with status below_threshold_suggestions_sent always has
\* stored suggestions, a list that is not empty, and the response of its call
\* carries that same list
C23_SuggestionsWithBlocked ==
    \A r \in RequestIds :
        req_status[r] = "below_threshold_suggestions_sent" =>
            /\ suggestions[r] # NoTips
            /\ Len(suggestions[r][1]) > 0
            /\ route[r].pc = "returned"
            /\ Len(route[r].response.suggestions) > 0
            /\ ResponseTips(r) = suggestions[r][1]
            /\ \A i \in DOMAIN route[r].response.suggestions :
                   route[r].response.suggestions[i].description = suggestions[r][1][i]

\* a request blocked on its tokens has its four tips stored and returned
C23_Witness ==
    \E r \in RequestIds :
        /\ req_status[r] = "below_threshold_suggestions_sent"
        /\ "tokens" \in {DecisionOf(r).exceeded_dimensions[i] :
                             i \in DOMAIN DecisionOf(r).exceeded_dimensions}
        /\ suggestions[r] = <<generate_suggestions(route[r].prompt)>>
        /\ route[r].response.status = "below_threshold_suggestions_sent"

\* the call was rejected: its response is an error
Rejected(r) == route[r].response.code \notin {0, 200}
\* the tables of the store
store == <<jobs, vector_index, req_status, executed_at, suggestions, users>>

\* C26: a call rejected for its prompt (422, 413) or for its identity (401, 403)
\* leaves the store as it was: the step that rejects it writes nothing, and a
\* rejected call never has a request row or a job row
C26_RejectedWritesNothing ==
    /\ [](\A r \in RequestIds :
              Rejected(r) => /\ route[r].response.code \in {401, 403, 413, 422}
                             /\ req_status[r] = "none"
                             /\ ~HasJobRow(r))
    /\ [][\A r \in RequestIds :
              (~Rejected(r) /\ Rejected(r)') => UNCHANGED store]_vars

\* a call with a prompt over the length limit, made by a known user, was
\* rejected with 413
C26_Witness ==
    \E r \in RequestIds :
        /\ route[r].pc = "returned"
        /\ route[r].response.code = 413
        /\ KnownUserCode(users, route[r].ident.email) = 0
        /\ req_status[r] = "none"

\* the request was admitted and its call has returned
AdmittedReturned(r) ==
    /\ route[r].pc = "returned"
    /\ route[r].response.code = 200
    /\ DecisionOf(r).passed
LatencyOf(r) == estimate_latency(route[r].prompt)
Cutoff == settings.background_max_latency_ms

\* with a future schedule time the job's run_at and the response's ETA are that
\* time, whatever the latency
ScheduledAsAsked ==
    [][\A r \in RequestIds :
          (route[r].pc = "dispatch" /\ route'[r].pc = "returned"
           /\ FutureSchedule(route[r].scheduled_for)) =>
              /\ \E j \in jobs' : j.request_id = r
              /\ \A j \in jobs' : j.request_id = r =>
                     /\ j.run_at = TsVal(route[r].scheduled_for)
                     /\ j.status = "queued"
              /\ route'[r].response.eta = route[r].scheduled_for]_vars

\* an admitted request without a job row was dispatched as a background task
NoJobMeansBackground ==
    \A r \in RequestIds :
        (AdmittedReturned(r) /\ ~HasJobRow(r)) => route[r].task # "none"

\* C27 as stated: an admitted request has a job row if and only if it carries
\* a future schedule time or its latency is not below the cutoff
C27_JobIffNotBelowCutoff ==
    \A r \in RequestIds :
        AdmittedReturned(r) =>
            (HasJobRow(r) <=> (FutureSchedule(route[r].scheduled_for)
                               \/ ~(LatencyOf(r) < Cutoff)))

\* C27, amended: an admitted request has a job row if and only if it carries a
\* future schedule time or its latency is above the cutoff; with a future
\* time the job's run_at and the ETA are that time; without a job row the
\* request is a background task and never both
C27_JobIffAboveCutoff ==
    /\ [](\A r \in RequestIds :
              AdmittedReturned(r) =>
                  /\ HasJobRow(r) <=> (FutureSchedule(route[r].scheduled_for)
                                       \/ LatencyOf(r) > Cutoff)
                  /\ HasJobRow(r) <=> route[r].task = "none")
    /\ ScheduledAsAsked

\* an admitted request whose latency equals the cutoff, with no future time:
\* a background task and no job row
C27_Witness ==
    \E r \in RequestIds :
        /\ AdmittedReturned(r)
        /\ LatencyOf(r) = Cutoff
        /\ ~FutureSchedule(route[r].scheduled_for)
        /\ ~HasJobRow(r)
        /\ route[r].task = "pending"

\* ---- claims about identity resolution ------------------------------------------------
\* the external alias a call supplies: the header's, else the payload's
SuppliedAlias(call) ==
    IF Truthy(call.x_provided_user_id) THEN call.x_provided_user_id
    ELSE call.metadata_provided_user_id
AliasSupplied(call) == Truthy(SuppliedAlias(call))
IdSupplied(call) == Truthy(call.user_id)
\* the call has been resolved, the store answering its lookup
ResolvedCall == resolution # NoResolution /\ identity_call.fault = "none"
UsersWithAlias(alias) == {u \in users : u.provided_user_id = alias}
UsersWithId(id) == {u \in users : u.id = id}

\* C24: with an alias supplied (header, else payload) the principal is the user
\* looked up by the alias, whatever internal id or authenticated principal
\* comes with it; the internal id is used only without an alias, and the
\* authenticated principal only without either
C24_IdentityPrecedence ==
    ResolvedCall =>
        LET call == identity_call
            res == resolution[1]
        IN /\ (AliasSupplied(call) /\ UsersWithAlias(SuppliedAlias(call)) # {}) =>
                  /\ res.code = 200
                  /\ res.user \in UsersWithAlias(SuppliedAlias(call))
                  /\ res.notes = <<"Logged in using external ID">>
           /\ (~AliasSupplied(call) /\ IdSupplied(call)
               /\ UsersWithId(call.user_id) # {}) =>
                  /\ res.code = 200
                  /\ res.user \in UsersWithId(call.user_id)
                  /\ res.notes = <<"Logged in using internal ID">>
           /\ (~AliasSupplied(call) /\ ~IdSupplied(call)
               /\ call.current_user # NoRow) =>
                  /\ res.code = 200
                  /\ res.user = call.current_user
                  /\ res.notes = <<"Logged in using API-key authentication">>
           /\ res.notes = <<"Logged in using internal ID">> => ~AliasSupplied(call)
           /\ res.notes = <<"Logged in using API-key authentication">> =>
                  ~AliasSupplied(call) /\ ~IdSupplied(call)

\* the header names one user, the payload an alias nobody has, the internal id
\* and the API key another user: the header's user is the principal
C24_Witness ==
    /\ ResolvedCall
    /\ identity_call.x_provided_user_id = "ext-1"
    /\ identity_call.metadata_provided_user_id = "ext-9"
    /\ identity_call.user_id = "u2"
    /\ identity_call.current_user # NoRow
    /\ resolution[1].code = 200
    /\ resolution[1].user.id = "u1"

\* C25: a supplied alias that no user has, or without an alias a supplied
\* internal id that no user has, ends the resolution with 404 even with an
\* authenticated principal present, and no resolution changes the users table
C25_NotFoundNeverCreates ==
    /\ [](ResolvedCall =>
             LET call == identity_call
                 res == resolution[1]
             IN /\ (AliasSupplied(call) /\ UsersWithAlias(SuppliedAlias(call)) = {}) =>
                       res.code = 404 /\ res.user = NoRow
                /\ (~AliasSupplied(call) /\ IdSupplied(call)
                    /\ UsersWithId(call.user_id) = {}) =>
                       res.code = 404 /\ res.user = NoRow)
    /\ [](users = UserRows)
    /\ [][users' = users]_vars

\* an alias nobody has, sent with a valid API key: 404
C25_Witness ==
    /\ ResolvedCall
    /\ SuppliedAlias(identity_call) = "ext-9"
    /\ identity_call.current_user # NoRow
    /\ resolution[1].code = 404
    /\ users = UserRows

\* ---- claims about re-submission ------------------------------------------------------
\* C28: enqueue_job for a request whose job is queued changes only the job's
\* run_at and priority: its attempts and last_error stay as they were, and the
\* request still has one row
C28_ResubmitKeepsAttempts ==
    [][\A rid \in RequestIds, p \in Priorities, t \in RunAtInputs :
          (enqueue_job(rid, p, t) /\ \E j \in RowsOf(rid) : j.status = "queued") =>
              /\ Cardinality({j \in jobs' : j.request_id = rid}) = 1
              /\ \A j \in RowsOf(rid) : \E k \in jobs' :
                     /\ k.id = j.id
                     /\ k.request_id = j.request_id
                     /\ k.status = j.status
                     /\ k.attempts = j.attempts
                     /\ k.last_error = j.last_error]_vars

\* ---- claims about the worker loop's error handling -----------------------------------
\* the statements of the for loop's body
InBatch == {"execute", "complete", "fail", "fail_write"}

\* C29: within one iteration every leased job is handled: the for loop is left
\* only from the last job of the batch, whatever execute_request_job,
\* complete_job or fail_and_reschedule raised for the jobs before it
C29_BatchIsolation ==
    [][\A w \in BatchWorkers :
          (pc[w] \in InBatch /\ pc'[w] \notin InBatch) => Len(batch[w]) = 1]_vars

\* C30 as stated: an exception of lease_jobs, release_stale_locks, complete_job
\* or fail_and_reschedule is followed by a sleep, and then by another lease
C30_ErrorThenSleepThenLease ==
    /\ [][\A w \in BatchWorkers :
              (LoopLevelError(w) \/ complete_raises(w) \/ fail_raises(w)) =>
                  pc'[w] = "error_sleep"]_vars
    /\ \A w \in BatchWorkers : (pc[w] = "error_sleep") ~> (pc[w] = "lease")

\* C30, amended: an exception of lease_jobs, release_stale_locks or
\* fail_and_reschedule is followed by a sleep and then by the next lease; an
\* exception of complete_job is followed by fail_and_reschedule for that job;
\* the loop never ends, and is at its lease call again and again
C30_LoopSurvivesErrors ==
    /\ [][\A w \in BatchWorkers :
              /\ (LoopLevelError(w) \/ fail_raises(w)) => pc'[w] = "error_sleep"
              /\ complete_raises(w) => pc'[w] = "fail"
              /\ (pc[w] = "error_sleep" /\ pc'[w] # pc[w]) => pc'[w] = "lease"]_vars
    /\ [](\A w \in BatchWorkers : pc[w] # "crashed")
    /\ \A w \in BatchWorkers : []<>(pc[w] = "lease")

\* complete_job has raised for a job that had failed before, and
\* fail_and_reschedule is about to be called for it
C30_Witness ==
    \E w \in BatchWorkers :
        /\ pc[w] = "fail"
        /\ Len(batch[w]) = 1
        /\ executed_at[Head(batch[w]).request_id] > 0
        /\ Row(Head(batch[w]).id).attempts > 0

\* ---- claims about retries --------------------------------------------------------------
\* the ids of the jobs worker w's for loop has yet to handle after the step
BatchIdsAfter(w) == {batch'[w][i].id : i \in DOMAIN batch'[w]}

\* C31: a failed job is never retried inline. The fail_and_reschedule call that
\* puts a job back to queued with attempts = n sets its run_at to the instant
\* of the failure plus min(base * 2^(n-1), cap), a time yet to come; the job
\* is not among those the iteration still handles; and a lease_jobs call made
\* while that run_at lies ahead neither returns the job nor touches its row
C31_NoInlineRetry ==
    /\ [][\A w \in BatchWorkers :
              (FailWriteStep(w) /\ attempts[w] < MAX_ATTEMPTS) =>
                  /\ Head(batch[w]).id \notin BatchIdsAfter(w)
                  /\ \A j \in jobs' : j.id = Head(batch[w]).id =>
                         /\ j.status = "queued"
                         /\ j.attempts = attempts[w]
                         /\ j.run_at = _utcnow + Min(BACKOFF_BASE_SEC * 2^(attempts[w] - 1),
                                                     BACKOFF_CAP_SEC)
                         /\ j.run_at > _utcnow]_vars
    /\ [](\A w \in BatchWorkers : \A j \in jobs :
              j.status = "queued" => j.id \notin BatchIds(w))
    /\ [][\A w \in BatchWorkers :
              (pc[w] = "lease" /\ pc'[w] \in {"execute", "sweep"}) =>
                  \A j \in jobs : (j.status = "queued" /\ j.run_at > _utcnow) =>
                      /\ j.id \notin BatchIdsAfter(w)
                      /\ j \in jobs']_vars

\* the first job of a batch of two has failed a second time and waits for its
\* run_at, while the iteration goes on with the other job
C31_Witness ==
    \E w \in BatchWorkers : \E j \in jobs :
        /\ j.status = "queued"
        /\ j.attempts = 2
        /\ j.run_at > _utcnow
        /\ pc[w] = "execute"
        /\ Len(batch[w]) = 1
        /\ Head(batch[w]).id # j.id

\* ---- claims about with_retry ---------------------------------------------------------
Invocations == Len(retry.seen)
LastOf(q) == q[Len(q)]

\* C33: with_retry invokes the store call at most `attempts` times, returns
\* the first successful result (no invocation follows a success), invokes
\* again only after a transient fault, raises 504 (timeout) or 503
\* (unavailable) once the last allowed invocation failed with a transient
\* fault, and every call ends: it returns or it raises 503 or 504
C33_WithRetry ==
    /\ [](/\ Invocations <= retry.attempts
          /\ \A k \in 1..(Invocations - 1) : retry.seen[k] \in RETRYABLE_EXC
          /\ retry.state = "returned" <=> (Invocations > 0 /\ LastOf(retry.seen) = "ok")
          /\ retry.state = "raised" => retry.status \in {503, 504}
          /\ (retry.state = "raised" /\ Invocations > 0 /\ LastOf(retry.seen) \in RETRYABLE_EXC) =>
                 /\ Invocations = retry.attempts
                 /\ retry.status = IF LastOf(retry.seen) = "timeout" THEN 504 ELSE 503
          /\ (retry.state = "running" /\ Invocations > 0) => LastOf(retry.seen) \in RETRYABLE_EXC)
    /\ [](retry.state = "running" => <>(retry.state \in {"returned", "raised"}))
C33_Witness ==
    /\ retry.attempts = DB_RETRY_ATTEMPTS
    /\ retry.seen = <<"unavailable", "timeout", "timeout">>
    /\ retry.state = "raised" /\ retry.status = 504

\* ---- claims about store faults during identity resolution ---------------------------
\* the call is resolved by the internal id, and the store fails during the lookup
InternalIdOutage ==
    /\ resolution # NoResolution
    /\ ~AliasSupplied(identity_call)
    /\ IdSupplied(identity_call)
    /\ identity_call.fault # "none"

LinkStep == link_calls' # link_calls
\* the call being made, and the calls before it that wrote to the same user
ThisLink == link_calls'[Len(link_calls')]
AppliedBefore == {k \in DOMAIN link_calls :
                     /\ link_calls[k].user_id = ThisLink.user_id
                     /\ link_calls[k].fault = "none"}
\* row v is row u but for the alias
SameButAlias(u, v) ==
    u.id = v.id /\ u.email = v.email /\ u.default_priority = v.default_priority

\* C35: a call of link_provided_user_id_if_missing sets the alias of the user
\* named when that alias is unset, never changes an alias that is set, leaves
\* every other row and every other field as it was, and changes nothing when
\* an earlier call (with the same alias or another) was applied to that user
C35_LinkOnce ==
    [][LinkStep =>
          /\ \A u \in users :
                 IF u.id = ThisLink.user_id /\ u.provided_user_id = NULL
                    /\ ThisLink.fault = "none"
                 THEN [u EXCEPT !.provided_user_id = ThisLink.provided_user_id] \in users'
                 ELSE u \in users'
          /\ \A v \in users' : \E u \in users :
                 /\ SameButAlias(u, v)
                 /\ u.provided_user_id # NULL => v = u
          /\ Cardinality(users') = Cardinality(users)
          /\ AppliedBefore # {} => users' = users]_vars
\* the alias of u2, unset at first, was linked by the first call and kept by
\* the second, made with another alias
C35_Witness ==
    /\ Len(link_calls) = 2
    /\ link_calls[1] = [user_id |-> "u2", provided_user_id |-> "ext-9", fault |-> "none"]
    /\ link_calls[2] = [user_id |-> "u2", provided_user_id |-> "ext-1", fault |-> "none"]
    /\ \E u \in users : u.id = "u2" /\ u.provided_user_id = "ext-9"

\* ---- claims about request creation and the notify handling --------------------------
\* create_request has finished for the request's call: it returned or raised
CreateRequestFinished(r) == route[r].pc \notin {"idle", "insert", "analyzing"}
Inserted(r) == req_status[r] # "none"

\* C32: once create_request has finished, by returning or by raising after
\* the insert, the request it inserted is not in status pending
C32_NoStablePending ==
    \A r \in RequestIds :
        (CreateRequestFinished(r) /\ Inserted(r)) => req_status[r] # "pending"

\* C37: a note applied twice to a request is in the note field once, as when
\* set_notify_email falls back to the note and the route then appends the
\* same note: no line of the field occurs twice
C37_AppendIsIdempotent ==
    \A r \in RequestIds : \A i, j \in DOMAIN request_note[r] :
        request_note[r][i] = request_note[r][j] => i = j

\* the call is in the notify handling
InNotifyHandling(r) ==
    route[r].pc \in {"get_user_email", "set_notify_email", "update_request_note"}

\* C38: a failure while the notify intent is recorded does not end the call:
\* from the notify handling the call goes on, to the analysis at the latest,
\* and a call that got past create_request returns 200 with the status of
\* an admitted or of a blocked request
C38_NotifyDegrades ==
    /\ [][\A r \in RequestIds : InNotifyHandling(r) => route'[r].pc # "returned"]_vars
    /\ [](\A r \in RequestIds :
             (route[r].pc = "returned" /\ req_status[r] \notin {"none", "pending"}) =>
                 /\ route[r].response.code = 200
                 /\ route[r].response.status \in
                        {"sent_to_execution", "below_threshold_suggestions_sent"})

\* ---- claims about concurrent notes --------------------------------------------------
IsPrefix(p, q) == Len(p) <= Len(q) /\ \A i \in DOMAIN p : p[i] = q[i]

\* C36: whatever the interleaving of update_request_note calls on a request,
\* the field holds the note of every caller whose last call returned, and
\* the content before a step is a prefix of the content after it
C36_AppendOnlyNotes ==
    /\ [](\A c \in NoteCallers :
             (note_calls[c].pc = "done" /\ note_calls[c].status = 200) =>
                 \A i \in DOMAIN note_calls[c].notes :
                     InSeq(note_calls[c].notes[i], request_note[note_calls[c].request_id]))
    /\ [][\A r \in RequestIds : IsPrefix(request_note[r], request_note'[r])]_vars

\* ---- claims about completed jobs ----------------------------------------------------
\* C39: once a job's status is completed no step changes its status, its
\* attempts or its run_at (the clock apart, which moves every run_at alike),
\* and no worker gets it leased again
C39_CompletedIsTerminal ==
    [][\A j \in jobs : j.status = "completed" =>
          /\ After(j).status = "completed"
          /\ After(j).attempts = j.attempts
          /\ After(j).run_at \in {j.run_at, ShiftRunAt(j.run_at)}
          /\ LockCleared(After(j))
          /\ \A w \in Workers : LeaseStep(w) => j.id \notin {batch'[w][i].id : i \in DOMAIN batch'[w]}]_vars

\* ---- claims about the default configuration -----------------------------------------
\* predictions up to the background cutoff and over it, at every tier
CutoffLatencyInputs ==
    LatencyInputs \cup {BACKGROUND_MAX_LATENCY_MS, BACKGROUND_MAX_LATENCY_MS + 1}
CutoffAnalysisInputs ==
    [predictions : [total_tokens : {100, 1000}, latency_ms : CutoffLatencyInputs,
                    complexity_score : {10, 100}],
     priority : TierInputs]

\* C40: under the default settings whatever check_thresholds admits has a
\* latency within the background cutoff, so an admitted request of the route
\* is never dispatched to the queue for immediate execution: without a
\* future schedule time it is a background task with no job row, and every
\* job row the route made carries a future schedule time
C40_DefaultNeverQueuesAsap ==
    /\ \A a \in CutoffAnalysisInputs :
           check_thresholds(a.predictions, a.priority).passed =>
               Background(a.predictions.latency_ms, DefaultSettings)
    /\ settings = DefaultSettings =>
           \A r \in RequestIds :
               /\ (route[r].pc \in {"dispatch", "returned"} /\ route[r].passed) =>
                      /\ LatencyOf(r) <= Cutoff
                      /\ DispatchPath(route[r], settings) # "queued"
               /\ (AdmittedReturned(r) /\ ~FutureSchedule(route[r].scheduled_for)) =>
                      /\ route[r].task # "none"
                      /\ ~HasJobRow(r)
               /\ \A j \in jobs : j.request_id = r =>
                      FutureSchedule(route[r].scheduled_for)
\* under the default settings the longest prompt the route accepts, sent at
\* the high tier for immediate execution, was admitted and runs as a
\* background task
C40_Witness ==
    /\ settings = DefaultSettings
    /\ \E r \in RouteRequests :
          /\ AdmittedReturned(r)
          /\ route[r].prompt.chars = PROMPT_MAX_CHARS
          /\ route[r].priority = "high"
          /\ ~FutureSchedule(route[r].scheduled_for)
          /\ route[r].task = "pending"
          /\ ~HasJobRow(r)

====
